---- MODULE Spec2Model ----
(***************************************************************************)
(* Model of the AutoStream agent: the intent classifier (agent/intent.py), *)
(* the knowledge retriever (agent/rag.py) and the workflow graph with its  *)
(* lead-qualification dialogue (agent/graph.py).                           *)
(*                                                                         *)
(* A Python str is modelled as a sequence of one-character strings, so     *)
(* that lower(), strip(), split(), title(), substring tests and the        *)
(* regular expressions are computed character by character.  A formatted   *)
(* message (an f-string) is modelled as the sequence of its parts: the     *)
(* literal pieces as TLA+ strings, the interpolated values as they are.    *)
(* The alphabet is ASCII.                                                  *)
(***************************************************************************)
EXTENDS Integers, Sequences, FiniteSets, TLC

(***************************************************************************)
(* Characters                                                              *)
(***************************************************************************)
LowerLetters == <<"a","b","c","d","e","f","g","h","i","j","k","l","m",
                  "n","o","p","q","r","s","t","u","v","w","x","y","z">>
UpperLetters == <<"A","B","C","D","E","F","G","H","I","J","K","L","M",
                  "N","O","P","Q","R","S","T","U","V","W","X","Y","Z">>
Digits == {"0","1","2","3","4","5","6","7","8","9"}
\* The ASCII characters str.strip() and str.split() treat as blank: space,
\* \t, \n, \r, \f, and the control characters \x0b, \x1c, \x1d, \x1e, \x1f
\* (written raw inside the last five literals).
Whitespace == {" ", "\t", "\n", "\r", "\f", "", "", "", "", ""}

Range(s) == {s[i] : i \in 1..Len(s)}
IsLower(c) == c \in Range(LowerLetters)
IsUpper(c) == c \in Range(UpperLetters)
IsLetter(c) == IsLower(c) \/ IsUpper(c)
IsAlnum(c) == IsLetter(c) \/ c \in Digits
\* \w of the re module
IsWordChar(c) == IsAlnum(c) \/ c = "_"
IndexIn(c, s) == CHOOSE i \in 1..Len(s) : s[i] = c
LowerChar(c) == IF IsUpper(c) THEN LowerLetters[IndexIn(c, UpperLetters)] ELSE c
UpperChar(c) == IF IsLower(c) THEN UpperLetters[IndexIn(c, LowerLetters)] ELSE c

(***************************************************************************)
(* str methods                                                             *)
(***************************************************************************)
\* str.lower()
Lower(s) == [i \in 1..Len(s) |-> LowerChar(s[i])]

\* str.title(): a cased character is upper-cased when the character before
\* it is not cased, lower-cased otherwise
Title(s) == [i \in 1..Len(s) |->
               IF i > 1 /\ IsLetter(s[i-1]) THEN LowerChar(s[i]) ELSE UpperChar(s[i])]

\* slice s[i:] with i counted from 0
DropFirst(s, n) == IF n >= Len(s) THEN <<>> ELSE SubSeq(s, n + 1, Len(s))

\* str.strip()
Strip(s) ==
  LET keep == {i \in 1..Len(s) : s[i] \notin Whitespace}
  IN  IF keep = {} THEN <<>>
      ELSE LET lo == CHOOSE i \in keep : \A j \in keep : i <= j
               hi == CHOOSE i \in keep : \A j \in keep : j <= i
           IN  SubSeq(s, lo, hi)

\* p occurs in s starting at index i (1-based)
OccursAt(p, s, i) ==
  /\ i >= 1
  /\ i + Len(p) - 1 <= Len(s)
  /\ \A k \in 1..Len(p) : s[i + k - 1] = p[k]

\* p in s
Contains(p, s) == \E i \in 1..(Len(s) - Len(p) + 1) : OccursAt(p, s, i)

\* s.startswith(p)
StartsWith(s, p) == OccursAt(p, s, 1)

\* str.split(): the maximal runs of non-whitespace characters, in order
RECURSIVE SplitFrom(_, _)
SplitFrom(s, i) ==
  IF i > Len(s) THEN <<>>
  ELSE IF s[i] \in Whitespace THEN SplitFrom(s, i + 1)
  ELSE LET stops == {j \in i..Len(s) : s[j] \in Whitespace}
           e == IF stops = {} THEN Len(s) + 1
                ELSE CHOOSE j \in stops : \A k \in stops : j <= k
       IN  <<SubSeq(s, i, e - 1)>> \o SplitFrom(s, e)
Split(s) == SplitFrom(s, 1)

(***************************************************************************)
(* Regular expressions of the shape \bX\b and \bX.*Y\b                      *)
(***************************************************************************)
\* \b at the position before index i (i in 1..Len(s)+1)
WordAt(s, i) == i >= 1 /\ i <= Len(s) /\ IsWordChar(s[i])
Boundary(s, i) == WordAt(s, i - 1) # WordAt(s, i)

\* a pattern is the sequence of its literal segments, joined by .* and
\* enclosed in \b ... \b ; '.' matches everything but a newline
MatchAt(pat, s, i) ==
  /\ Boundary(s, i)
  /\ OccursAt(pat[1], s, i)
  /\ IF Len(pat) = 1 THEN Boundary(s, i + Len(pat[1]))
     ELSE \E j \in (i + Len(pat[1]))..(Len(s) + 1) :
            /\ OccursAt(pat[2], s, j)
            /\ Boundary(s, j + Len(pat[2]))
            /\ \A k \in (i + Len(pat[1]))..(j - 1) : s[k] # "\n"

\* re.search(pattern, s) is not None
ReSearch(pat, s) == \E i \in 1..(Len(s) + 1) : MatchAt(pat, s, i)


(***************************************************************************)
(* agent/intent.py : IntentClassifier                                      *)
(***************************************************************************)
GREET == "GREET"
INQUIRY == "INQUIRY"
HIGH_INTENT == "HIGH_INTENT"
IntentType == {GREET, INQUIRY, HIGH_INTENT}

\* self.intent_patterns, each list in its declared order
GreetPatterns == <<
  <<<<"h","i">>>>,
  <<<<"h","e","l","l","o">>>>,
  <<<<"h","e","y">>>>,
  <<<<"h","o","w","d","y">>>>,
  <<<<"g","r","e","e","t","i","n","g","s">>>>,
  <<<<"g","o","o","d"," ","m","o","r","n","i","n","g">>>>,
  <<<<"g","o","o","d"," ","a","f","t","e","r","n","o","o","n">>>>,
  <<<<"g","o","o","d"," ","e","v","e","n","i","n","g">>>>
>>

InquiryPatterns == <<
  <<<<"p","r","i","c","e">>>>,
  <<<<"p","r","i","c","i","n","g">>>>,
  <<<<"p","l","a","n">>>>,
  <<<<"p","l","a","n","s">>>>,
  <<<<"f","e","a","t","u","r","e","s">>>>,
  <<<<"c","o","s","t">>>>,
  <<<<"h","o","w"," ","m","u","c","h">>>>,
  <<<<"w","h","a","t"," ","d","o","e","s">>, <<"c","o","s","t">>>>,
  <<<<"d","o"," ","y","o","u"," ","o","f","f","e","r">>>>,
  <<<<"w","h","a","t"," ","d","o"," ","y","o","u"," ","h","a","v","e">>>>,
  <<<<"t","e","l","l"," ","m","e"," ","a","b","o","u","t">>>>,
  <<<<"i","n","f","o","r","m","a","t","i","o","n"," ","a","b","o","u","t">>>>
>>

HighIntentPatterns == <<
  <<<<"i"," ","w","a","n","t"," ","t","o"," ","t","r","y">>>>,
  <<<<"s","i","g","n"," ","u","p">>>>,
  <<<<"s","i","g","n","u","p">>>>,
  <<<<"b","u","y">>>>,
  <<<<"p","u","r","c","h","a","s","e">>>>,
  <<<<"o","r","d","e","r">>>>,
  <<<<"g","e","t"," ","s","t","a","r","t","e","d">>>>,
  <<<<"s","t","a","r","t"," ","t","r","i","a","l">>>>,
  <<<<"f","r","e","e"," ","t","r","i","a","l">>>>,
  <<<<"u","s","e"," ","f","o","r"," ","y","o","u","t","u","b","e">>>>,
  <<<<"u","s","e"," ","f","o","r">>, <<"v","i","d","e","o">>>>,
  <<<<"m","y"," ","y","o","u","t","u","b","e">>>>,
  <<<<"m","y"," ","i","n","s","t","a","g","r","a","m">>>>,
  <<<<"m","y"," ","t","i","k","t","o","k">>>>,
  <<<<"m","y"," ","f","a","c","e","b","o","o","k">>>>,
  <<<<"m","y"," ","l","i","n","k","e","d","i","n">>>>,
  <<<<"f","o","r"," ","m","y"," ","y","o","u","t","u","b","e">>>>,
  <<<<"f","o","r"," ","m","y"," ","i","n","s","t","a","g","r","a","m">>>>,
  <<<<"f","o","r"," ","m","y"," ","t","i","k","t","o","k">>>>,
  <<<<"r","e","a","d","y"," ","t","o"," ","b","u","y">>>>,
  <<<<"w","a","n","t"," ","t","o"," ","p","u","r","c","h","a","s","e">>>>,
  <<<<"i","n","t","e","r","e","s","t","e","d"," ","i","n">>>>,
  <<<<"r","e","a","d","y"," ","t","o"," ","s","t","a","r","t">>>>,
  <<<<"l","e","t","'","s"," ","s","t","a","r","t">>>>,
  <<<<"c","r","e","a","t","e"," ","a","c","c","o","u","n","t">>>>,
  <<<<"r","e","g","i","s","t","e","r">>>>
>>

\* the utterances mapped directly to INQUIRY
ShortCircuit == {<<"y","e","s">>, <<"y","e","s"," ","t","e","l","l"," ","m","e">>, <<"o","k">>, <<"o","k","a","y">>}

\* any(re.search(pattern, text_lower) for pattern in patterns)
AnyMatch(patterns, text_lower) ==
  \E k \in 1..Len(patterns) : ReSearch(patterns[k], text_lower)

\* mutant: the INQUIRY patterns are tried before the GREET patterns
IntentOrder_InquiryFirst == <<INQUIRY, GREET, HIGH_INTENT>>

\* the insertion order of the keys of intent_patterns
IntentOrder == <<GREET, INQUIRY, HIGH_INTENT>>
PatternsOf(intent) ==
  IF intent = GREET THEN GreetPatterns
  ELSE IF intent = INQUIRY THEN InquiryPatterns
  ELSE HighIntentPatterns

\* the loop over the other intents: the first intent, in dictionary order
\* and skipping HIGH_INTENT, one of whose patterns matches; GREET when none
RECURSIVE OtherIntentFrom(_, _)
OtherIntentFrom(text_lower, k) ==
  IF k > Len(IntentOrder) THEN GREET
  ELSE IF IntentOrder[k] = HIGH_INTENT THEN OtherIntentFrom(text_lower, k + 1)
  ELSE IF AnyMatch(PatternsOf(IntentOrder[k]), text_lower) THEN IntentOrder[k]
  ELSE OtherIntentFrom(text_lower, k + 1)

\* mutant: HIGH_INTENT is tried after the other intents
classify_intent_HighLast(text) ==
  LET text_lower == Lower(text)
  IN  IF text_lower \in ShortCircuit THEN INQUIRY
      ELSE IF AnyMatch(GreetPatterns, text_lower) THEN GREET
      ELSE IF AnyMatch(InquiryPatterns, text_lower) THEN INQUIRY
      ELSE IF AnyMatch(HighIntentPatterns, text_lower) THEN HIGH_INTENT
      ELSE GREET

classify_intent(text) ==
  LET text_lower == Lower(text)
  IN  IF text_lower \in ShortCircuit THEN INQUIRY
      ELSE IF AnyMatch(HighIntentPatterns, text_lower) THEN HIGH_INTENT
      ELSE OtherIntentFrom(text_lower, 1)

\* any(word in text_lower for word in words)
AnyIn(words, text_lower) == \E w \in words : Contains(w, text_lower)

extract_entities(text) ==
  LET t == Lower(text)
      topic == IF AnyIn({<<"p","r","i","c","e">>, <<"p","r","i","c","i","n","g">>, <<"c","o","s","t">>}, t)
               THEN {<<"topic", "pricing">>} ELSE {}
      plan == IF Contains(<<"b","a","s","i","c">>, t) THEN {<<"plan", "basic">>}
              ELSE IF Contains(<<"p","r","o">>, t) THEN {<<"plan", "pro">>}
              ELSE {}
      feature == IF Contains(<<"v","i","d","e","o">>, t) THEN {<<"feature", "video">>}
                 ELSE IF Contains(<<"r","e","s","o","l","u","t","i","o","n">>, t) THEN {<<"feature", "resolution">>}
                 ELSE IF Contains(<<"c","a","p","t","i","o","n","s">>, t) THEN {<<"feature", "captions">>}
                 ELSE {}
      action == IF AnyIn({<<"b","u","y">>, <<"p","u","r","c","h","a","s","e">>, <<"o","r","d","e","r">>}, t)
                THEN {<<"action", "purchase">>}
                ELSE IF AnyIn({<<"t","r","y">>, <<"t","r","i","a","l">>, <<"s","t","a","r","t">>}, t)
                THEN {<<"action", "trial">>}
                ELSE {}
      pairs == topic \cup plan \cup feature \cup action
  IN  [k \in {p[1] : p \in pairs} |-> (CHOOSE p \in pairs : p[1] = k)[2]]

(***************************************************************************)
(* agent/graph.py : the extraction helpers of the qualification dialogue   *)
(***************************************************************************)
\* the value None of an Optional[str]
None == <<"None">>

NamePrefixes == <<<<"m","y"," ","n","a","m","e"," ","i","s">>, <<"i","'","m">>, <<"i"," ","a","m">>, <<"c","a","l","l"," ","m","e">>, <<"i","t","'","s">>>>

\* the text after removing the first prefix of the list it starts with
RECURSIVE RemovePrefixFrom(_, _)
RemovePrefixFrom(text, k) ==
  IF k > Len(NamePrefixes) THEN text
  ELSE IF StartsWith(Lower(text), NamePrefixes[k])
       THEN Strip(DropFirst(text, Len(NamePrefixes[k])))
       ELSE RemovePrefixFrom(text, k + 1)

MinNameLen == 2

_extract_name(text) ==
  LET words == Split(RemovePrefixFrom(Strip(text), 1))
  IN  IF words # <<>> /\ Len(words[1]) >= MinNameLen
      THEN Title(words[1]) ELSE None

\* the character classes of email_pattern
LocalChar(c) == IsAlnum(c) \/ c \in {".", "_", "%", "+", "-"}
DomainChar(c) == IsAlnum(c) \/ c \in {".", "-"}
TldChar(c) == IsLetter(c) \/ c = "|"
MinTldLen == 2

\* email_pattern matches s[i..e] with the '@' at a and the last '.' at p
LocalPart(s, i, a) ==
  i < a /\ a <= Len(s) /\ s[a] = "@" /\ \A k \in i..(a - 1) : LocalChar(s[k])
DomainPart(s, a, p) ==
  a + 1 < p /\ p <= Len(s) /\ s[p] = "." /\ \A k \in (a + 1)..(p - 1) : DomainChar(s[k])
TldPart(s, p, e) ==
  /\ p + MinTldLen <= e /\ e <= Len(s)
  /\ \A k \in (p + 1)..e : TldChar(s[k])
  /\ Boundary(s, e + 1)
EmailMatch(s, i, a, p, e) ==
  Boundary(s, i) /\ LocalPart(s, i, a) /\ DomainPart(s, a, p) /\ TldPart(s, p, e)

\* the greatest element of a non-empty set of indices
MaxOf(S) == CHOOSE m \in S : \A n \in S : n <= m
MinOf(S) == CHOOSE m \in S : \A n \in S : m <= n

\* re.search: the leftmost start, then the greedy choices in order (the
\* longest domain, then the longest top-level part)
_extract_email(text) ==
  LET idx == 1..Len(text)
      ats == {a \in idx : text[a] = "@"}
      dotsAfter(a) == {p \in idx : DomainPart(text, a, p)
                                     /\ \E e \in idx : TldPart(text, p, e)}
      starts == {i \in idx : /\ Boundary(text, i)
                             /\ \E a \in ats : LocalPart(text, i, a)
                                                /\ dotsAfter(a) # {}}
  IN  IF starts = {} THEN None
      ELSE LET i == MinOf(starts)
               a == CHOOSE m \in ats : LocalPart(text, i, m)
               p == MaxOf(dotsAfter(a))
               e == MaxOf({m \in idx : TldPart(text, p, m)})
           IN  SubSeq(text, i, e)

Platforms == <<<<"y","o","u","t","u","b","e">>, <<"t","i","k","t","o","k">>, <<"i","n","s","t","a","g","r","a","m">>, <<"l","i","n","k","e","d","i","n">>,
               <<"t","w","i","t","t","e","r">>, <<"f","a","c","e","b","o","o","k">>, <<"t","w","i","t","c","h">>>>

RECURSIVE PlatformFrom(_, _)
PlatformFrom(text_lower, k) ==
  IF k > Len(Platforms) THEN None
  ELSE IF Contains(Platforms[k], text_lower) THEN Title(Platforms[k])
  ELSE PlatformFrom(text_lower, k + 1)

\* mutant: the platform is returned as it stands in the vocabulary
_extract_platform_Untitled(text) ==
  LET p == PlatformFrom(Lower(text), 1)
  IN  IF p = None THEN None ELSE Lower(p)

\* mutant: the platform mentioned first in the utterance is returned
_extract_platform_FirstMentioned(text) ==
  LET text_lower == Lower(text)
      found == {k \in 1..Len(Platforms) : Contains(Platforms[k], text_lower)}
      at(k) == MinOf({i \in 1..Len(text_lower) : OccursAt(Platforms[k], text_lower, i)})
  IN  IF found = {} THEN None
      ELSE Title(Platforms[CHOOSE k \in found : \A j \in found : at(k) <= at(j)])

_extract_platform(text) == PlatformFrom(Lower(text), 1)

(***************************************************************************)
(* Python floats (IEEE-754 binary64), for the relevance scores.  A float   *)
(* here is the pair <<hi, lo>> of the integer hi * 2^28 + lo that counts    *)
(* multiples of 2^-55; every score below 16 is such a multiple.            *)
(***************************************************************************)
Limb == 2^28
F_0_0 == <<0, 0>>
F_0_2 == <<26843545, 161061274>>
F_0_3 == <<40265318, 107374182>>
F_0_5 == <<67108864, 0>>
F_0_8 == <<107374182, 107374184>>
F_1_0 == <<134217728, 0>>

\* the spacing of the floats in the binade of hi * 2^28, in units of 2^-55
RECURSIVE Quantum(_)
Quantum(hi) == IF hi < 2^25 THEN 1 ELSE 2 * Quantum(hi \div 2)

\* x + y, rounded to the nearest float, ties to even
Carry(hi, lo) == <<hi + (lo \div Limb), lo % Limb>>

\* the low limb without its remainder r below the spacing q, rounded
RoundLow(base, r, q) ==
  IF 2 * r > q \/ (2 * r = q /\ (base \div q) % 2 = 1) THEN base + q ELSE base

RoundWith(hi, lo, q) == Carry(hi, RoundLow(lo - (lo % q), lo % q, q))
RoundLimbs(sum) == RoundWith(sum[1], sum[2], Quantum(sum[1]))

FloatAdd(x, y) == RoundLimbs(Carry(x[1] + y[1], x[2] + y[2]))

FloatLess(x, y) == x[1] < y[1] \/ (x[1] = y[1] /\ x[2] < y[2])
FloatMin(x, y) == IF FloatLess(y, x) THEN y ELSE x

\* x added n times to acc, one addition after the other
RECURSIVE AddTimes(_, _, _)
AddTimes(acc, x, n) == IF n = 0 THEN acc ELSE AddTimes(FloatAdd(acc, x), x, n - 1)

(***************************************************************************)
(* agent/rag.py : KnowledgeBase and RAGEngine                              *)
(*                                                                         *)
(* The knowledge data is an ordered mapping, modelled as the sequence of   *)
(* its <<key, value>> items.  A top-level value is a sub-mapping ("dict"), *)
(* a string ("str") or anything else ("other"); a leaf carries whether it  *)
(* is a string, its content (the string, or its JSON text) and, when it is *)
(* a mapping whose "features" entry is a list, the type names of the items *)
(* of that list (no names otherwise).                                      *)
(***************************************************************************)
DictValue(items) == [kind |-> "dict", items |-> items, text |-> <<>>]
StrValue(text) == [kind |-> "str", items |-> <<>>, text |-> text]
OtherValue == [kind |-> "other", items |-> <<>>, text |-> <<>>]
StrLeaf(text) == [isStr |-> TRUE, content |-> text, features |-> <<>>]
JsonLeaf(dump) == [isStr |-> FALSE, content |-> dump, features |-> <<>>]
PlanLeaf(dump, features) == [isStr |-> FALSE, content |-> dump, features |-> features]

pricing_keywords == {<<"p","r","i","c","e">>, <<"p","r","i","c","i","n","g">>, <<"c","o","s","t">>, <<"p","l","a","n">>, <<"p","l","a","n","s">>,
                     <<"b","a","s","i","c">>, <<"p","r","o">>}
policy_keywords == {<<"r","e","f","u","n","d">>, <<"s","u","p","p","o","r","t">>, <<"p","o","l","i","c","y">>, <<"p","o","l","i","c","i","e","s">>}

\* the truth value of an Optional[str]
Truthy(s) == s # None /\ s # <<>>

\* any(word in text for word in query.split())
AnyWordIn(query, text) ==
  \E w \in Range(Split(query)) : Contains(w, text)

_is_relevant_to_query(query, main_key, sub_key, value) ==
  \/ AnyIn(pricing_keywords, query) /\ main_key = <<"p","r","i","c","i","n","g">>
  \/ AnyIn(policy_keywords, query) /\ main_key = <<"p","o","l","i","c","i","e","s">>
  \/ /\ Truthy(sub_key)
     /\ \/ Contains(Lower(sub_key), query)
        \/ AnyWordIn(query, Lower(sub_key))
  \/ value.isStr /\ AnyWordIn(query, Lower(value.content))

\* the number of distinct query words that occur in text
WordHits(query_words, text) ==
  Cardinality({w \in query_words : Contains(w, text)})

\* the four additions to the score, each from the score so far
\* mutant: a sub-key that appears in the query adds nothing
ScoreSubKey_Ignored(score, query, sub_key) == score

ScoreSubKey(score, query, sub_key) ==
  IF Truthy(sub_key) /\ Contains(Lower(sub_key), query)
  THEN FloatAdd(score, F_0_8) ELSE score

ScoreSubKeyWords(score, query_words, sub_key) ==
  IF Truthy(sub_key)
  THEN AddTimes(score, F_0_3, WordHits(query_words, Lower(sub_key)))
  ELSE score

\* mutant: a category key that appears in the query adds nothing
ScoreMainKey_Ignored(score, query, main_key) == score

ScoreMainKey(score, query, main_key) ==
  IF Contains(Lower(main_key), query) THEN FloatAdd(score, F_0_5) ELSE score

ScoreContent(score, query_words, value) ==
  IF value.isStr
  THEN AddTimes(score, F_0_2, WordHits(query_words, Lower(value.content)))
  ELSE score

ScoreWith(query_words, query, main_key, sub_key, value) ==
  IF query_words = {} THEN F_0_0
  ELSE FloatMin(
         ScoreContent(
           ScoreMainKey(
             ScoreSubKeyWords(ScoreSubKey(F_0_0, query, sub_key),
                              query_words, sub_key),
             query, main_key),
           query_words, value),
         F_1_0)

_calculate_relevance(query, main_key, sub_key, value) ==
  ScoreWith(Range(Split(query)), query, main_key, sub_key, value)

Item(query, key, main_key, sub_key, value) ==
  [key |-> key, content |-> value.content, full_data |-> value,
   relevance_score |-> _calculate_relevance(query, main_key, sub_key, value)]

\* mutant: a sub-item that passes the gate with score zero is dropped
RECURSIVE SubItemsFrom_DropsZero(_, _, _, _)
SubItemsFrom_DropsZero(query, main_key, items, k) ==
  IF k > Len(items) THEN <<>>
  ELSE IF /\ _is_relevant_to_query(query, main_key, items[k][1], items[k][2])
          /\ FloatLess(F_0_0, _calculate_relevance(query, main_key, items[k][1], items[k][2]))
       THEN <<Item(query, main_key \o <<".">> \o items[k][1],
                   main_key, items[k][1], items[k][2])>>
              \o SubItemsFrom_DropsZero(query, main_key, items, k + 1)
       ELSE SubItemsFrom_DropsZero(query, main_key, items, k + 1)

\* the relevant items of one sub-mapping, in its order
RECURSIVE SubItemsFrom(_, _, _, _)
SubItemsFrom(query, main_key, items, k) ==
  IF k > Len(items) THEN <<>>
  ELSE LET sub_key == items[k][1]
           sub_value == items[k][2]
           rest == SubItemsFrom(query, main_key, items, k + 1)
       IN  IF _is_relevant_to_query(query, main_key, sub_key, sub_value)
           THEN <<Item(query, main_key \o <<".">> \o sub_key,
                       main_key, sub_key, sub_value)>> \o rest
           ELSE rest

\* the relevant items of the whole mapping, in encounter order
RECURSIVE ItemsFrom(_, _, _)
ItemsFrom(query, data, k) ==
  IF k > Len(data) THEN <<>>
  ELSE LET key == data[k][1]
           value == data[k][2]
           rest == ItemsFrom(query, data, k + 1)
       IN  IF value.kind = "dict"
           THEN SubItemsFrom(query, key, value.items, 1) \o rest
           ELSE IF value.kind = "str"
                   /\ _is_relevant_to_query(query, key, None, StrLeaf(value.text))
           THEN <<Item(query, key, key, None, StrLeaf(value.text))>> \o rest
           ELSE rest

\* list.sort(key=relevance_score, reverse=True): stable, so an item goes
\* behind every item placed before it whose score is not smaller
\* mutant: an item goes ahead of the items of equal score placed before it
InsertByScore_AheadOfEqual(sorted, it) ==
  LET ahead == {i \in 1..Len(sorted) :
                  FloatLess(it.relevance_score, sorted[i].relevance_score)}
      n == Cardinality(ahead)
  IN  SubSeq(sorted, 1, n) \o <<it>> \o SubSeq(sorted, n + 1, Len(sorted))

InsertByScore(sorted, it) ==
  LET ahead == {i \in 1..Len(sorted) :
                  ~FloatLess(sorted[i].relevance_score, it.relevance_score)}
      n == Cardinality(ahead)
  IN  SubSeq(sorted, 1, n) \o <<it>> \o SubSeq(sorted, n + 1, Len(sorted))

RECURSIVE SortByScore(_, _)
SortByScore(items, k) ==
  IF k = 0 THEN <<>> ELSE InsertByScore(SortByScore(items, k - 1), items[k])

\* slice s[:n]: the first n elements, all of s when n >= len(s); a negative
\* n counts from the end, so that the last -n elements are left out
TakeFirst(s, n) ==
  IF n >= Len(s) THEN s
  ELSE IF n >= 0 THEN SubSeq(s, 1, n)
  ELSE IF Len(s) + n > 0 THEN SubSeq(s, 1, Len(s) + n)
  ELSE <<>>

SortAll(items) == SortByScore(items, Len(items))

retrieve_relevant_info(data, query, max_results) ==
  TakeFirst(SortAll(ItemsFrom(Lower(query), data, 1)), max_results)

DefaultMaxResults == 5

\* The score once more, loop by loop.  set(query.split()) is iterated in an
\* order the language does not fix and that differs from one run of the
\* program to the next: query_words is the set as the sequence in which a
\* call happens to iterate it.
\* mutant: the loop is left after its first word
AddPerHit_LeftAfterFirst(score, weight, query_words, text) ==
  IF query_words # <<>> /\ Contains(Head(query_words), text)
  THEN FloatAdd(score, weight) ELSE score

\* for word in query_words: if word in text: score += weight
RECURSIVE AddPerHit(_, _, _, _)
AddPerHit(score, weight, query_words, text) ==
  IF query_words = <<>> THEN score
  ELSE AddPerHit(IF Contains(Head(query_words), text)
                 THEN FloatAdd(score, weight) ELSE score,
                 weight, Tail(query_words), text)

SubKeyWordsInOrder(score, query_words, sub_key) ==
  IF Truthy(sub_key)
  THEN AddPerHit(score, F_0_3, query_words, Lower(sub_key))
  ELSE score

ContentInOrder(score, query_words, value) ==
  IF value.isStr
  THEN AddPerHit(score, F_0_2, query_words, Lower(value.content))
  ELSE score

ScoreInOrder(query_words, query, main_key, sub_key, value) ==
  IF query_words = <<>> THEN F_0_0
  ELSE FloatMin(
         ContentInOrder(
           ScoreMainKey(
             SubKeyWordsInOrder(ScoreSubKey(F_0_0, query, sub_key),
                                query_words, sub_key),
             query, main_key),
           query_words, value),
         F_1_0)

ItemInOrder(query_words, query, key, main_key, sub_key, value) ==
  [key |-> key, content |-> value.content, full_data |-> value,
   relevance_score |-> ScoreInOrder(query_words, query, main_key, sub_key, value)]

RECURSIVE SubItemsInOrder(_, _, _, _, _)
SubItemsInOrder(query_words, query, main_key, items, k) ==
  IF k > Len(items) THEN <<>>
  ELSE LET sub_key == items[k][1]
           sub_value == items[k][2]
           rest == SubItemsInOrder(query_words, query, main_key, items, k + 1)
       IN  IF _is_relevant_to_query(query, main_key, sub_key, sub_value)
           THEN <<ItemInOrder(query_words, query, main_key \o <<".">> \o sub_key,
                              main_key, sub_key, sub_value)>> \o rest
           ELSE rest

RECURSIVE ItemsInOrder(_, _, _, _)
ItemsInOrder(query_words, query, data, k) ==
  IF k > Len(data) THEN <<>>
  ELSE LET key == data[k][1]
           value == data[k][2]
           rest == ItemsInOrder(query_words, query, data, k + 1)
       IN  IF value.kind = "dict"
           THEN SubItemsInOrder(query_words, query, key, value.items, 1) \o rest
           ELSE IF value.kind = "str"
                   /\ _is_relevant_to_query(query, key, None, StrLeaf(value.text))
           THEN <<ItemInOrder(query_words, query, key, key, None,
                              StrLeaf(value.text))>> \o rest
           ELSE rest

\* retrieve_relevant_info(query, max_results) in a run that iterates the set
\* of the words of the lowercased query as query_words
RetrieveInOrder(query_words, data, query, max_results) ==
  TakeFirst(SortAll(ItemsInOrder(query_words, Lower(query), data, 1)), max_results)

\* the orders in which the set of the words of a query may be iterated
Orders(query) ==
  {s \in [1..Cardinality(Range(Split(Lower(query)))) -> Range(Split(Lower(query)))] :
     Range(s) = Range(Split(Lower(query)))}

\* a formatted message: the text of the format and the interpolated values
Msg(fmt, args) == [fmt |-> fmt, args |-> args]

Keys(items) == [i \in 1..Len(items) |-> items[i].key]

\* the context string: the intent line, then one "key: content" line per item
_build_context(relevant_info, intent) ==
  [intent |-> intent,
   lines |-> [i \in 1..Len(relevant_info) |->
                <<relevant_info[i].key, relevant_info[i].content>>]]

\* str(n) of a natural number
DigitChars == <<"0","1","2","3","4","5","6","7","8","9">>
RECURSIVE Decimal(_)
Decimal(n) ==
  IF n < 10 THEN <<DigitChars[n + 1]>>
  ELSE Decimal(n \div 10) \o <<DigitChars[(n % 10) + 1]>>

\* type(x).__name__ of a string
StrType == <<"s","t","r">>

\* str(e) of the TypeError of ', '.join(features) on the first item that is
\* not a string
JoinError(features) ==
  LET i == CHOOSE i \in DOMAIN features :
             /\ features[i] # StrType
             /\ \A j \in 1..(i - 1) : features[j] = StrType
  IN  <<"s","e","q","u","e","n","c","e"," ","i","t","e","m"," ">> \o Decimal(i - 1)
        \o <<":"," ","e","x","p","e","c","t","e","d"," ","s","t","r"," ","i","n","s","t","a","n","c","e",","," ">>
        \o features[i] \o <<" ","f","o","u","n","d">>

\* the plan text is layout only; joining a features list raises when one of
\* its items is not a string
_format_plan_info(plan_data) ==
  IF \E i \in DOMAIN plan_data.features : plan_data.features[i] # StrType
  THEN [raised |-> TRUE, error |-> JoinError(plan_data.features)]
  ELSE [raised |-> FALSE, error |-> None]

\* the items rendered by _format_plan_info: key holds "pricing" and a dot
IsPlanItem(item) == Contains(<<"p","r","i","c","i","n","g">>, item.key) /\ "." \in Range(item.key)

\* the formatting of the items themselves is text layout only: the message
\* is identified by the keys of the items it renders, in order.  The items
\* are formatted one after the other, and the exception of the first plan
\* that cannot be formatted leaves the function.
_generate_llm_response(query, relevant_info) ==
  IF relevant_info = <<>>
  THEN [raised |-> FALSE, error |-> None,
        response |-> Msg("I don't have specific information about '{}' in my knowledge base.",
                         <<query>>)]
  ELSE LET failing == {i \in DOMAIN relevant_info :
                         /\ IsPlanItem(relevant_info[i])
                         /\ _format_plan_info(relevant_info[i].full_data).raised}
       IN  IF failing = {}
           THEN [raised |-> FALSE, error |-> None,
                 response |-> Msg("{formatted items, joined by blank lines}",
                                  Keys(relevant_info))]
           ELSE [raised |-> TRUE,
                 error |-> _format_plan_info(
                             relevant_info[CHOOSE i \in failing :
                                             \A j \in failing : i <= j].full_data).error,
                 response |-> Msg("None", <<>>)]


(***************************************************************************)
(* The inputs of the model, and the pure functions tabulated over them     *)
(* (each table entry is the function applied to that input).               *)
(***************************************************************************)
\* knowledge_base/autostream_data.json, when it is missing and when present
EmptyData == <<>>
SampleData == <<
  <<<<"p","r","i","c","i","n","g">>, DictValue(<<
      <<<<"B","a","s","i","c">>, JsonLeaf(<<"{","\"","p","r","i","c","e","\"",":"," ","\"","$","2","9","/","m","o","n","t","h","\"","}">>)>>,
      <<<<"P","r","o">>, JsonLeaf(<<"{","\"","p","r","i","c","e","\"",":"," ","\"","$","7","9","/","m","o","n","t","h","\"","}">>)>> >>)>>,
  <<<<"p","o","l","i","c","i","e","s">>, DictValue(<<
      <<<<"r","e","f","u","n","d">>, StrLeaf(<<"N","o"," ","r","e","f","u","n","d","s"," ","a","f","t","e","r"," ","7"," ","d","a","y","s">>)>>,
      <<<<"s","u","p","p","o","r","t">>, StrLeaf(<<"2","4","/","7"," ","s","u","p","p","o","r","t"," ","o","n","l","y"," ","o","n"," ","P","r","o"," ","p","l","a","n">>)>> >>)>> >>
KnowledgeSources == {EmptyData, SampleData}

\* the utterances a user may type
U_hi == <<"h","i">>
U_inquiry == <<"T","e","l","l"," ","m","e"," ","a","b","o","u","t"," ","P","r","o"," ","p","l","a","n">>
U_try == <<"I"," ","w","a","n","t"," ","t","o"," ","t","r","y"," ","P","r","o"," ","p","l","a","n"," ","f","o","r"," ","m","y"," ","Y","o","u","T","u","b","e"," ","c","h","a","n","n","e","l">>
U_name == <<"J","o","h","n">>
U_email == <<"j","o","h","n","@","e","x","a","m","p","l","e",".","c","o","m">>
U_platform == <<"Y","o","u","T","u","b","e">>
U_all == <<"s","i","g","n"," ","u","p"," ","S","a","m"," ","s","a","m","@","x",".","i","o"," ","t","i","k","t","o","k">>
Utterances == {U_hi, U_inquiry, U_try, U_name, U_email, U_platform, U_all}


\* the texts the classifier is called with directly: up to MaxWords words of
\* the vocabulary joined by single blanks, bare or padded with a blank
Vocabulary == {<<"h","i">>, <<"b","u","y">>, <<"p","r","i","c","e">>, <<"y","e","s">>, <<"t","e","l","l">>, <<"m","e">>, <<"O","K">>, <<"o","k","a","y">>}
MaxWords == 3

RECURSIVE JoinWords(_)
JoinWords(ws) ==
  IF Len(ws) = 1 THEN ws[1] ELSE ws[1] \o <<" ">> \o JoinWords(Tail(ws))

Texts ==
  LET phrases == UNION {[1..n -> Vocabulary] : n \in 1..MaxWords}
  IN  {JoinWords(ws) : ws \in phrases}
        \cup {<<" ">> \o JoinWords(ws) \o <<" ">> : ws \in phrases}

ClassifyTable == [u \in Utterances |-> classify_intent(u)]
EntitiesTable == [u \in Utterances |-> extract_entities(u)]
NameTable == [u \in Utterances |-> _extract_name(u)]
EmailTable == [u \in Utterances |-> _extract_email(u)]
PlatformTable == [u \in Utterances |-> _extract_platform(u)]
RetrieveTable == [d \in KnowledgeSources |-> [u \in Utterances |->
                    retrieve_relevant_info(d, u, DefaultMaxResults)]]

ClassifyOf(u) == IF u \in Utterances THEN ClassifyTable[u] ELSE classify_intent(u)
EntitiesOf(u) == IF u \in Utterances THEN EntitiesTable[u] ELSE extract_entities(u)
NameOf(u) == IF u \in Utterances THEN NameTable[u] ELSE _extract_name(u)
EmailOf(u) == IF u \in Utterances THEN EmailTable[u] ELSE _extract_email(u)
PlatformOf(u) == IF u \in Utterances THEN PlatformTable[u] ELSE _extract_platform(u)
RetrieveOf(d, u) ==
  IF d \in KnowledgeSources /\ u \in Utterances THEN RetrieveTable[d][u]
  ELSE retrieve_relevant_info(d, u, DefaultMaxResults)

\* the dictionary generate_response returns, or the exception that leaves it
ResponseFrom(query, intent, relevant_info) ==
  [raised |-> _generate_llm_response(query, relevant_info).raised,
   error |-> _generate_llm_response(query, relevant_info).error,
   response |-> _generate_llm_response(query, relevant_info).response,
   context |-> _build_context(relevant_info, intent),
   sources |-> Keys(relevant_info)]

generate_response(data, query, intent) ==
  ResponseFrom(query, intent, RetrieveOf(data, query))

(***************************************************************************)
(* agent/graph.py : WorkflowState and WorkflowGraph                        *)
(*                                                                         *)
(* A dict is a function from its present keys; the timestamps of history   *)
(* entries and metadata are left out.                                      *)
(***************************************************************************)
Put(d, k, v) == (k :> v) @@ d
EmptyDict == [k \in {} |-> k]

\* Optional[str] fields that hold None
NoIntent == "None"
NoResponse == Msg("None", <<>>)

Stages == <<"initial", "asking_name", "asking_email", "asking_platform", "completed">>
StageIndex(stage) == CHOOSE i \in 1..Len(Stages) : Stages[i] = stage

\* the node ids of _build_workflow in dictionary order; each node's only
\* successor is the next one
NodeOrder == <<"start", "intent_classification", "knowledge_retrieval",
               "tool_execution", "response_generation", "end">>

\* WorkflowState(user_input=...) after __post_init__
NewState == [user_input |-> None, intent |-> NoIntent, context |-> EmptyDict,
             response |-> NoResponse, metadata |-> EmptyDict,
             name |-> None, email |-> None, platform |-> None,
             conversation_history |-> <<>>,
             qualification_stage |-> "initial"]

\* str(e) of the exception a failing capture callback raises
CaptureError == <<"c","a","p","t","u","r","e"," ","f","a","i","l","e","d">>

\* the outcome of running a piece of code: the state it leaves, whether it
\* raised, the invocations of mock_lead_capture it made and str(e) of the
\* exception.  The handlers raise nothing of their own: an exception that
\* leaves one with invocations made is the one of the capture callback.
Outcome(st, raised, calls) ==
  [st |-> st, raised |-> raised, calls |-> calls,
   error |-> IF raised THEN CaptureError ELSE None]
Returns(st) == Outcome(st, FALSE, <<>>)
Raises(st, error) == [st |-> st, raised |-> TRUE, calls |-> <<>>, error |-> error]

\* "if state.response:" takes None and the empty string for no response
HasResponse(st) == st.response # NoResponse /\ st.response # Msg("", <<>>)

\* mutant: the intent is classified anew in every turn
_classify_intent_Reclassifies(st) ==
  [st EXCEPT !.intent = ClassifyOf(st.user_input),
             !.context = Put(@, "entities", EntitiesOf(st.user_input))]

_classify_intent(st) ==
  LET s1 == IF st.qualification_stage # "initial" /\ st.intent = HIGH_INTENT
            THEN st
            ELSE [st EXCEPT !.intent = ClassifyOf(st.user_input)]
  IN  [s1 EXCEPT !.context = Put(@, "entities", EntitiesOf(st.user_input))]

\* the two context entries both users of the RAG result write
StoreKnowledge(st, result) ==
  [st EXCEPT !.context = Put(Put(@, "retrieved_knowledge", result.context),
                             "sources", result.sources)]

StoreInquiry(st, result) ==
  [StoreKnowledge(st, result) EXCEPT !.response = result.response]

\* an exception of generate_response leaves the state as it was
StoredBy(st, result, stored) ==
  IF result.raised THEN Raises(st, result.error) ELSE Returns(stored)

_retrieve_knowledge(data, st) ==
  StoredBy(st, generate_response(data, st.user_input, st.intent),
           StoreKnowledge(st, generate_response(data, st.user_input, st.intent)))

_handle_inquiry(data, st) ==
  StoredBy(st, generate_response(data, st.user_input, st.intent),
           StoreInquiry(st, generate_response(data, st.user_input, st.intent)))

\* mutant: the greeting is written only when no response is left on the state
_handle_greeting_KeepsResponse(st) ==
  IF HasResponse(st) THEN st
  ELSE [st EXCEPT !.response = Msg("Hello (U+1F44B) How can I help you today?", <<>>)]

_handle_greeting(st) ==
  [st EXCEPT !.response = Msg("Hello (U+1F44B) How can I help you today?", <<>>)]

ThanksMsg(name) ==
  Msg("Thanks {}! I've captured your information. Our team will be in touch soon!",
      <<name>>)

\* mock_lead_capture is called with the three fields; when it returns, the
\* lead is recorded in the context; when it raises, nothing more is done
_capture_lead(st, capture_ok) ==
  LET call == [name |-> st.name, email |-> st.email, platform |-> st.platform,
               returned |-> capture_ok]
      lead == [name |-> st.name, email |-> st.email, platform |-> st.platform]
  IN  IF capture_ok
      THEN Outcome([st EXCEPT !.context = Put(@, "lead_captured", lead)],
                   FALSE, <<call>>)
      ELSE Outcome(st, TRUE, <<call>>)

\* mutant: the first turn already stores the platform it can extract
HandleInitial_StoresPlatform(st) ==
  Returns([st EXCEPT
    !.platform = PlatformOf(st.user_input),
    !.response = Msg("Great! I'd be happy to help you get started. What's your name?", <<>>),
    !.qualification_stage = "asking_name"])

\* the branches of _handle_lead_qualification, one per stage
HandleInitial(st) ==
  Returns([st EXCEPT
    !.response = Msg("Great! I'd be happy to help you get started. What's your name?", <<>>),
    !.qualification_stage = "asking_name"])

\* mutant: the dialogue moves on to the email when no name was extracted
HandleAskingName_MovesOn(st) ==
  LET name == NameOf(st.user_input)
  IN  Returns([st EXCEPT
        !.name = IF Truthy(name) THEN name ELSE @,
        !.response = Msg("Nice to meet you, {}! Now, what's your email address?", <<name>>),
        !.qualification_stage = "asking_email"])

NameGiven(st, name) ==
  IF Truthy(name)
  THEN Returns([st EXCEPT
         !.name = name,
         !.response = Msg("Nice to meet you, {}! Now, what's your email address?", <<name>>),
         !.qualification_stage = "asking_email"])
  ELSE Returns([st EXCEPT
         !.response = Msg("I didn't catch your name. Could you please tell me your name?", <<>>)])

\* mutant: a turn that gets the name takes the email of the same utterance too
HandleAskingName_TakesAll(st) ==
  LET named == NameGiven(st, NameOf(st.user_input))
      email == EmailOf(st.user_input)
  IN  IF Truthy(NameOf(st.user_input)) /\ Truthy(email)
      THEN Returns([named.st EXCEPT
             !.email = email,
             !.response = Msg("Perfect! One last question - what creator platform are you planning to use? (e.g., YouTube, TikTok, Instagram, etc.)", <<>>),
             !.qualification_stage = "asking_platform"])
      ELSE named

HandleAskingName(st) == NameGiven(st, NameOf(st.user_input))

\* mutant: the lead is captured as soon as the email is in
HandleAskingEmail_CapturesEarly(st) ==
  LET email == EmailOf(st.user_input)
  IN  IF Truthy(email)
      THEN LET cap == _capture_lead([st EXCEPT !.email = email], TRUE)
           IN  Outcome([cap.st EXCEPT
                          !.response = Msg("Perfect! One last question - what creator platform are you planning to use? (e.g., YouTube, TikTok, Instagram, etc.)", <<>>),
                          !.qualification_stage = "asking_platform"],
                       FALSE, cap.calls)
      ELSE Returns([st EXCEPT
             !.response = Msg("I need a valid email address. Could you please provide your email?", <<>>)])

\* mutant: an invalid email sends the dialogue back to the name
HandleAskingEmail_Restarts(st) ==
  LET email == EmailOf(st.user_input)
  IN  IF Truthy(email)
      THEN Returns([st EXCEPT
             !.email = email,
             !.response = Msg("Perfect! One last question - what creator platform are you planning to use? (e.g., YouTube, TikTok, Instagram, etc.)", <<>>),
             !.qualification_stage = "asking_platform"])
      ELSE Returns([st EXCEPT
             !.response = Msg("I need a valid email address. Could you please provide your email?", <<>>),
             !.qualification_stage = "asking_name"])

EmailGiven(st, email) ==
  IF Truthy(email)
  THEN Returns([st EXCEPT
         !.email = email,
         !.response = Msg("Perfect! One last question - what creator platform are you planning to use? (e.g., YouTube, TikTok, Instagram, etc.)", <<>>),
         !.qualification_stage = "asking_platform"])
  ELSE Returns([st EXCEPT
         !.response = Msg("I need a valid email address. Could you please provide your email?", <<>>)])

HandleAskingEmail(st) == EmailGiven(st, EmailOf(st.user_input))

\* mutant: the last stage is entered before the outcome of the capture is known
LeadCaptured_AdvancesFirst(cap) ==
  Outcome([cap.st EXCEPT
             !.response = ThanksMsg(cap.st.name),
             !.qualification_stage = "completed"],
          cap.raised, cap.calls)

\* what follows the call of _capture_lead: its exception goes up, its
\* return is followed by the thanks and the last stage
LeadCaptured(cap) ==
  IF cap.raised THEN cap
  ELSE Outcome([cap.st EXCEPT
                  !.response = ThanksMsg(cap.st.name),
                  !.qualification_stage = "completed"],
               FALSE, cap.calls)

\* state.platform = platform: the state _capture_lead is called on, the stage
\* not yet assigned
PlatformStored(st, platform) == [st EXCEPT !.platform = platform]

PlatformGiven(st, platform, capture_ok) ==
  IF Truthy(platform)
  THEN LeadCaptured(_capture_lead(PlatformStored(st, platform), capture_ok))
  ELSE Returns([st EXCEPT
         !.response = Msg("Which creator platform will you be using? For example: YouTube, TikTok, Instagram, LinkedIn, etc.?", <<>>)])

HandleAskingPlatform(st, capture_ok) ==
  PlatformGiven(st, PlatformOf(st.user_input), capture_ok)

\* mutant: the completed stage captures the lead again
HandleCompleted_Recaptures(st) ==
  LET cap == _capture_lead(st, TRUE)
  IN  Outcome([cap.st EXCEPT !.response = ThanksMsg(st.name)], FALSE, cap.calls)

HandleCompleted(st) == Returns([st EXCEPT !.response = ThanksMsg(st.name)])

_handle_lead_qualification(st, capture_ok) ==
  LET stage == st.qualification_stage
  IN  IF stage = "initial" THEN HandleInitial(st)
      ELSE IF stage = "asking_name" THEN HandleAskingName(st)
      ELSE IF stage = "asking_email" THEN HandleAskingEmail(st)
      ELSE IF stage = "asking_platform" THEN HandleAskingPlatform(st, capture_ok)
      ELSE IF stage = "completed" THEN HandleCompleted(st)
      ELSE Returns(st)

\* mutant: an utterance with an action entity starts the qualification
_execute_tools_ReadsEntities(data, st, capture_ok) ==
  IF st.intent = HIGH_INTENT \/ "action" \in DOMAIN st.context["entities"]
  THEN _handle_lead_qualification(st, capture_ok)
  ELSE IF st.intent = INQUIRY THEN _handle_inquiry(data, st)
  ELSE IF st.intent = GREET THEN Returns(_handle_greeting(st))
  ELSE Returns(st)

\* mutant: an inquiry is taken as the start of a qualification too
_execute_tools_QualifiesInquiry(data, st, capture_ok) ==
  IF st.intent \in {HIGH_INTENT, INQUIRY}
  THEN _handle_lead_qualification(st, capture_ok)
  ELSE IF st.intent = GREET THEN Returns(_handle_greeting(st))
  ELSE Returns(st)

_execute_tools(data, st, capture_ok) ==
  IF st.intent = HIGH_INTENT THEN _handle_lead_qualification(st, capture_ok)
  ELSE IF st.intent = INQUIRY THEN _handle_inquiry(data, st)
  ELSE IF st.intent = GREET THEN Returns(_handle_greeting(st))
  ELSE Returns(st)

\* str(e) of the AttributeError of state.intent.replace on the intent None
NoneTypeError == <<"'","N","o","n","e","T","y","p","e","'"," ","o","b","j","e","c","t"," ","h","a","s"," ","n","o"," ","a","t","t","r","i","b","u","t","e"," ","'","r","e","p","l","a","c","e","'">>

\* the fallback branch: the last case formats the intent with replace('_', ' '),
\* which the intent None does not have
FallbackResponse(st) ==
  IF st.intent = INQUIRY
  THEN Returns([st EXCEPT !.response = Msg("I understand you're interested in INQUIRY. Let me help you with pricing and plan information.", <<>>)])
  ELSE IF st.intent = GREET
  THEN Returns([st EXCEPT !.response = Msg("Hello! Welcome to AutoStream. How can I help you today?", <<>>)])
  ELSE IF st.intent = NoIntent
  THEN Raises(st, NoneTypeError)
  ELSE Returns([st EXCEPT !.response = Msg("I understand you're interested in HIGH INTENT. Let me help you with that.", <<>>)])

\* mutant: the finalization writes its fallback whatever the handlers did
_generate_response_Overwrites(st) == FallbackResponse(st)

\* dict.get(k, default)
Get(d, k, default) == IF k \in DOMAIN d THEN d[k] ELSE default

\* the branch of a tool_result with the status 'success'.  The tool_result is
\* a dict whose content and platform are strings, sequences of characters
\* like user_input, and whose character_count is a natural number.  The
\* intents HIGH_INTENT and None are given no response, and nothing is raised.
ToolResponse(st, tool_result) ==
  IF st.intent = INQUIRY
  THEN Returns([st EXCEPT !.response =
         Msg("I've created content for {}:\n\n{}\n\nCharacter count: {}",
             <<Get(tool_result, "platform", <<"l","i","n","k","e","d","i","n">>),
               Get(tool_result, "content", <<>>),
               Decimal(Get(tool_result, "character_count", 0))>>)])
  ELSE IF st.intent = GREET
  THEN Returns([st EXCEPT !.response =
         Msg("Hello! I'm here to help you. Here's a welcome message for you:\n\n{}",
             <<Get(tool_result, "content", <<>>)>>)])
  ELSE Returns(st)

\* no node stores a tool_result: its branch is taken only on a state in
\* whose context the caller has put one, under the key tool_result, with the
\* status <<"s","u","c","c","e","s","s">>
_generate_response(st) ==
  IF /\ st.intent = HIGH_INTENT
     /\ st.qualification_stage \in
          {"asking_name", "asking_email", "asking_platform", "completed"}
  THEN Returns(st)
  ELSE IF HasResponse(st) THEN Returns(st)
  ELSE IF Get(Get(st.context, "tool_result", EmptyDict), "status", None)
            = <<"s","u","c","c","e","s","s">>
  THEN ToolResponse(st, Get(st.context, "tool_result", EmptyDict))
  ELSE FallbackResponse(st)

UserEntry(user_input) == [type |-> "user", content |-> user_input]
AgentEntry(st) == [type |-> "agent", content |-> st.response,
                   intent |-> st.intent, stage |-> st.qualification_stage]

\* the four node functions in the order of the edges; the exception of a
\* node ends the loop with the cursor on that node
StoppedOn(node, out, calls) ==
  [st |-> out.st, raised |-> TRUE, calls |-> calls, error |-> out.error,
   node |-> node]

AfterResponse(tools, generated) ==
  IF generated.raised
  THEN StoppedOn("response_generation", generated, tools.calls)
  ELSE [st |-> generated.st, raised |-> FALSE, calls |-> tools.calls,
        error |-> None, node |-> "end"]

AfterTools(tools) ==
  IF tools.raised
  THEN StoppedOn("tool_execution", tools, tools.calls)
  ELSE AfterResponse(tools, _generate_response(tools.st))

\* the tool node on the state the knowledge node has left
ToolsAfter(data, retrieved, capture_ok) ==
  IF retrieved.raised THEN retrieved
  ELSE _execute_tools(data, retrieved.st, capture_ok)

AfterRetrieval(data, retrieved, capture_ok) ==
  IF retrieved.raised
  THEN StoppedOn("knowledge_retrieval", retrieved, <<>>)
  ELSE AfterTools(_execute_tools(data, retrieved.st, capture_ok))

\* the nodes that follow the intent node
AfterIntent(data, classified, capture_ok) ==
  AfterRetrieval(data, _retrieve_knowledge(data, classified), capture_ok)

RunNodes(data, st, capture_ok) ==
  AfterIntent(data, _classify_intent(st), capture_ok)

\* mutant: every turn is given a new WorkflowState
TurnStart_Fresh(existing_state, user_input) ==
  [NewState EXCEPT
     !.user_input = user_input,
     !.conversation_history = <<UserEntry(user_input)>>]

\* mutant: the tool node is wired straight to the end node
next_nodes_SkipsFinalization(node) ==
  IF node = "start" THEN <<"intent_classification">>
  ELSE IF node = "intent_classification" THEN <<"knowledge_retrieval">>
  ELSE IF node = "knowledge_retrieval" THEN <<"tool_execution">>
  ELSE IF node = "tool_execution" THEN <<"end">>
  ELSE IF node = "response_generation" THEN <<"end">>
  ELSE <<>>

\* Node.next_nodes as _build_workflow sets them
next_nodes(node) ==
  IF node = "start" THEN <<"intent_classification">>
  ELSE IF node = "intent_classification" THEN <<"knowledge_retrieval">>
  ELSE IF node = "knowledge_retrieval" THEN <<"tool_execution">>
  ELSE IF node = "tool_execution" THEN <<"response_generation">>
  ELSE IF node = "response_generation" THEN <<"end">>
  ELSE <<>>

\* Node.function of each node, called on the state; start and end have none
NodeFunction(node, data, st, capture_ok) ==
  IF node = "intent_classification" THEN Returns(_classify_intent(st))
  ELSE IF node = "knowledge_retrieval" THEN _retrieve_knowledge(data, st)
  ELSE IF node = "tool_execution" THEN _execute_tools(data, st, capture_ok)
  ELSE IF node = "response_generation" THEN _generate_response(st)
  ELSE Returns(st)

\* the while loop of execute_workflow from the given node on, with the nodes
\* whose turn it has been so far; the exception of a node function leaves
\* the cursor on that node
RECURSIVE Loop(_, _, _, _, _, _)
LoopStep(node, data, capture_ok, calls, executed, out) ==
  IF out.raised \/ next_nodes(node) = <<>>
  THEN [st |-> out.st, raised |-> out.raised, calls |-> calls \o out.calls,
        error |-> out.error, node |-> node, executed |-> Append(executed, node)]
  ELSE Loop(next_nodes(node)[1], data, out.st, capture_ok,
            calls \o out.calls, Append(executed, node))

Loop(node, data, st, capture_ok, calls, executed) ==
  IF node = "end"
  THEN [st |-> st, raised |-> FALSE, calls |-> calls, error |-> None,
        node |-> node, executed |-> executed]
  ELSE LoopStep(node, data, capture_ok, calls, executed,
                NodeFunction(node, data, st, capture_ok))

\* execute_workflow(user_input, existing_state) as a function of the state
\* the caller passes in
\* the state at entry: the input and the user entry of the history
TurnStart(existing_state, user_input) ==
  [existing_state EXCEPT
     !.user_input = user_input,
     !.conversation_history = Append(@, UserEntry(user_input))]

\* mutant: the except branch takes the entry of the failed turn back
TurnFailed_RollsBack(st, error) ==
  [st EXCEPT
     !.conversation_history = SubSeq(@, 1, Len(@) - 1),
     !.metadata = Put(@, "error", error),
     !.response = Msg("An error occurred during processing: {}", <<error>>)]

\* mutant: the except branch starts the conversation record afresh
TurnFailed_StartsAfresh(st, error) ==
  [NewState EXCEPT
     !.user_input = st.user_input,
     !.conversation_history = st.conversation_history,
     !.metadata = Put(@, "error", error),
     !.response = Msg("An error occurred during processing: {}", <<error>>)]

\* the except branch, for the exception whose str() is error
TurnFailed(st, error) ==
  [st EXCEPT
     !.metadata = Put(@, "error", error),
     !.response = Msg("An error occurred during processing: {}", <<error>>)]

\* the agent entry of the history, when there is a response
AddAgentEntry(st) ==
  IF HasResponse(st)
  THEN [st EXCEPT !.conversation_history = Append(@, AgentEntry(st))]
  ELSE st

\* list(self.nodes.keys())[:node_index + 1] for the node the cursor names
NodesUpTo(node) ==
  IF node \in Range(NodeOrder)
  THEN SubSeq(NodeOrder, 1, CHOOSE i \in DOMAIN NodeOrder : NodeOrder[i] = node)
  ELSE <<>>

\* mutant: a turn that ends without an exception starts the metadata afresh
TurnDone_ClearsError(st, node) ==
  AddAgentEntry([st EXCEPT !.metadata = Put(EmptyDict, "nodes_executed", NodesUpTo(node))])

\* the end of the try block, the cursor of the graph read as node
TurnDone(st, node) ==
  AddAgentEntry([st EXCEPT !.metadata = Put(@, "nodes_executed", NodesUpTo(node))])

TurnEnd(run) ==
  [st |-> IF run.raised THEN TurnFailed(run.st, run.error)
          ELSE TurnDone(run.st, run.node),
   raised |-> run.raised, calls |-> run.calls, node |-> run.node]

TurnResult(data, existing_state, user_input, capture_ok) ==
  TurnEnd(RunNodes(data, TurnStart(existing_state, user_input), capture_ok))

(***************************************************************************)
(* The conversation: one caller holding one WorkflowState                  *)
(***************************************************************************)
MaxTurns == 5

VARIABLES
  state,           \* the WorkflowState the caller holds between turns
  current_node,    \* WorkflowGraph.current_node
  knowledge_data,  \* the content of the knowledge base file
  captured,        \* every invocation of mock_lead_capture, in order
  call,            \* the last direct call of a component, with its result
  retrievals       \* the retrieval calls made on one KnowledgeBase, in order

vars == <<state, current_node, knowledge_data, captured, call, retrievals>>

NoCall == [fn |-> "None", arg |-> <<>>, result |-> "None"]

\* the user entries of the history are the turns taken so far
UserInputs ==
  LET h == state.conversation_history
      F[i \in 0..Len(h)] ==
        IF i = 0 THEN <<>>
        ELSE IF h[i].type = "user" THEN Append(F[i - 1], h[i].content)
        ELSE F[i - 1]
  IN  F[Len(h)]
TurnsTaken == Len(UserInputs)

Init ==
  /\ state = NewState
  /\ current_node = "None"
  /\ knowledge_data \in KnowledgeSources
  /\ captured = <<>>
  /\ call = NoCall
  /\ retrievals = <<>>

\* the caller keeps the returned state; the graph keeps its cursor
Returned(r) ==
  /\ state' = r.st
  /\ current_node' = r.node
  /\ captured' = captured \o r.calls

execute_workflow(user_input, capture_ok) ==
  /\ TurnsTaken < MaxTurns
  /\ Returned(TurnResult(knowledge_data, state, user_input, capture_ok))
  /\ UNCHANGED <<knowledge_data, call, retrievals>>

Next == \E user_input \in Utterances, capture_ok \in BOOLEAN :
          execute_workflow(user_input, capture_ok)

Spec == Init /\ [][Next]_vars

\* IntentClassifier().classify_intent(text) called on its own: the text is
\* drawn at the start and the call classifies it
InitClassify ==
  /\ state = NewState
  /\ current_node = "None"
  /\ knowledge_data = EmptyData
  /\ captured = <<>>
  /\ call \in {[fn |-> "classify_intent", arg |-> t, result |-> "pending"] : t \in Texts}
  /\ retrievals = <<>>

CallClassify ==
  /\ call.fn = "classify_intent"
  /\ call.result = "pending"
  /\ call' = [call EXCEPT !.result = classify_intent(call.arg)]
  /\ UNCHANGED <<state, current_node, knowledge_data, captured, retrievals>>

NextClassify == CallClassify

SpecClassify == InitClassify /\ [][NextClassify]_vars

(***************************************************************************)
(* The conversation over a knowledge base file that cannot be loaded       *)
(***************************************************************************)
\* the file as open() and json.load() find it: not there, text that is not
\* JSON, bytes that are not UTF-8
Files == {"missing", "malformed", "undecodable"}

\* str(e) of the UnicodeDecodeError for a file that starts with byte 0xff
DecodeError == <<"'","u","t","f","-","8","'"," ","c","o","d","e","c"," ","c","a","n","'","t"," ","d","e","c","o","d","e"," ","b","y","t","e"," ","0","x","f","f"," ","i","n"," ","p","o","s","i","t","i","o","n"," ","0",":"," ","i","n","v","a","l","i","d"," ","s","t","a","r","t"," ","b","y","t","e">>

\* load_knowledge_base catches FileNotFoundError and json.JSONDecodeError
\* and leaves the empty tree; the UnicodeDecodeError of the read is neither
LoadOutcome(file) ==
  [raised |-> file \notin {"missing", "malformed"}, data |-> EmptyData]

\* the RAGEngine of _retrieve_knowledge is built after the intent node has
\* run; its exception ends the loop on the knowledge_retrieval node
LoadFailed(st) ==
  [st |-> TurnFailed(_classify_intent(st), DecodeError), raised |-> TRUE,
   calls |-> <<>>, node |-> "knowledge_retrieval"]

TurnOnFile(file, existing_state, user_input, capture_ok) ==
  IF LoadOutcome(file).raised
  THEN LoadFailed(TurnStart(existing_state, user_input))
  ELSE TurnResult(LoadOutcome(file).data, existing_state, user_input, capture_ok)

InitFiles ==
  /\ state = NewState
  /\ current_node = "None"
  /\ knowledge_data \in Files
  /\ captured = <<>>
  /\ call = NoCall
  /\ retrievals = <<>>

ExecuteOnFile(user_input, capture_ok) ==
  /\ TurnsTaken < MaxTurns
  /\ Returned(TurnOnFile(knowledge_data, state, user_input, capture_ok))
  /\ UNCHANGED <<knowledge_data, call, retrievals>>

NextFiles == \E user_input \in Utterances, capture_ok \in BOOLEAN :
               ExecuteOnFile(user_input, capture_ok)

SpecFiles == InitFiles /\ [][NextFiles]_vars

(***************************************************************************)
(* KnowledgeBase.retrieve_relevant_info called on its own                  *)
(***************************************************************************)
\* the categories a knowledge tree is built from: the two of the sample
\* data, the pricing plans in the other order, a category whose sub-key is
\* a plan name, and a top-level string
Categories == {
  SampleData[1],
  <<SampleData[1][1], DictValue(<<SampleData[1][2].items[2], SampleData[1][2].items[1]>>)>>,
  SampleData[2],
  <<<<"f","e","a","t","u","r","e","s">>, DictValue(<<
      <<<<"P","r","o">>, StrLeaf(<<"4","K"," ","e","x","p","o","r","t">>)>>,
      <<<<"B","a","s","i","c">>, StrLeaf(<<"7","2","0","p"," ","e","x","p","o","r","t">>)>> >>)>>,
  <<<<"a","b","o","u","t">>, StrValue(<<"A","u","t","o","S","t","r","e","a","m"," ","p","l","a","n","s"," ","f","o","r"," ","c","r","e","a","t","o","r","s">>)>> }

MaxCategories == 2

\* a tree is a mapping: its keys are distinct
Trees ==
  {t \in UNION {[1..n -> Categories] : n \in 0..MaxCategories} :
     \A i, j \in DOMAIN t : i # j => t[i][1] # t[j][1]}

Queries == {U_inquiry, <<"p","r","i","c","e">>, <<"r","e","f","u","n","d"," ","p","o","l","i","c","y">>, <<"f","e","a","t","u","r","e","s"," ","p","r","i","c","e">>, <<>>, <<"p","l","a","n","s"," ","f","o","r"," ","c","r","e","a","t","o","r","s">>}
\* the limits of the calls: the signature takes any integer
Limits == {-1, 0, 1, 2, DefaultMaxResults}

\* KnowledgeBase(path) on a file that holds one of the trees
InitRetrieve ==
  /\ state = NewState
  /\ current_node = "None"
  /\ knowledge_data \in Trees
  /\ captured = <<>>
  /\ call = NoCall
  /\ retrievals = <<>>

\* one call of retrieve_relevant_info(query, max_results): it reads the
\* tree of the object and writes nothing
CallRetrieve(query, max_results) ==
  /\ call = NoCall
  /\ call' = [fn |-> "retrieve_relevant_info", arg |-> <<query, max_results>>,
              result |-> retrieve_relevant_info(knowledge_data, query, max_results)]
  /\ UNCHANGED <<state, current_node, knowledge_data, captured, retrievals>>

NextRetrieve == \E query \in Queries, max_results \in Limits :
                  CallRetrieve(query, max_results)

SpecRetrieve == InitRetrieve /\ [][NextRetrieve]_vars

MaxCalls == 3

\* the queries of the repeated calls
RepeatedQueries == {<<"p","l","a","n","s"," ","f","o","r"," ","c","r","e","a","t","o","r","s">>,
                    <<"R","e","f","u","n","d"," ","p","o","l","i","c","y">>,
                    <<"p","r","i","c","e">>}

\* the two models of the retrieval tabulated over the trees, the repeated
\* queries and their orders; the comparison of a table with itself
\* evaluates its entries once
Tabulated(table) == IF table = table THEN table ELSE table
InOrderTable == Tabulated([d \in Trees |-> [q \in RepeatedQueries |-> [w \in Orders(q) |->
                   RetrieveInOrder(w, d, q, DefaultMaxResults)]]])
InOrderOf(w, d, q) == InOrderTable[d][q][w]
CountedTable == Tabulated([d \in Trees |-> [q \in RepeatedQueries |->
                   retrieve_relevant_info(d, q, DefaultMaxResults)]])
CountedOf(d, q) == CountedTable[d][q]

\* retrieve_relevant_info(query) called again and again on one object, with
\* the default limit; each call iterates the set of its query words in an
\* order of its own, and is recorded with it
CallRetrieveAgain(query, query_words) ==
  /\ Len(retrievals) < MaxCalls
  /\ retrievals' = Append(retrievals,
       [query |-> query, query_words |-> query_words,
        result |-> InOrderOf(query_words, knowledge_data, query)])
  /\ UNCHANGED <<state, current_node, knowledge_data, captured, call>>

NextRetrieveAgain ==
  \E query \in RepeatedQueries : \E query_words \in Orders(query) :
    CallRetrieveAgain(query, query_words)

SpecRetrieveAgain == InitRetrieve /\ [][NextRetrieveAgain]_vars

(***************************************************************************)
(* WorkflowGraph._extract_platform called on its own                       *)
(***************************************************************************)
\* the call is pending while its record has no result.  The words of the
\* answers to the platform question: platform names in several spellings, a name inside a longer word, and words that name none
PlatformWords == {<<"Y","o","u","T","u","b","e">>, <<"t","i","k","t","o","k">>, <<"I","N","S","T","A","G","R","A","M">>, <<"L","i","n","k","e","d","I","n">>, <<"t","w","i","t","t","e","r">>, <<"F","a","c","e","b","o","o","k">>, <<"t","w","i","t","c","h","e","r","s">>, <<"m","y">>, <<"t","u","b","e">>}
MaxPlatformWords == 2

PlatformTexts ==
  {JoinWords(ws) : ws \in UNION {[1..n -> PlatformWords] : n \in 1..MaxPlatformWords}}

InitPlatform ==
  /\ state = NewState
  /\ current_node = "None"
  /\ knowledge_data = EmptyData
  /\ captured = <<>>
  /\ call \in {[fn |-> "_extract_platform", arg |-> t] : t \in PlatformTexts}
  /\ retrievals = <<>>

CallExtractPlatform ==
  /\ call.fn = "_extract_platform"
  /\ "result" \notin DOMAIN call
  /\ call' = [fn |-> call.fn, arg |-> call.arg, result |-> _extract_platform(call.arg)]
  /\ UNCHANGED <<state, current_node, knowledge_data, captured, retrievals>>

NextPlatform == CallExtractPlatform

SpecPlatform == InitPlatform /\ [][NextPlatform]_vars

(***************************************************************************)
(* The conversation run twice on the same turns: by the code, and by the   *)
(* rule of the design note, under which the classifier is consulted        *)
(* exactly in the stage initial.  The second state is kept in call.result. *)
(***************************************************************************)
\* the intent node under the rule of the design note
ClassifyByStage(st) ==
  LET s1 == IF st.qualification_stage = "initial"
            THEN [st EXCEPT !.intent = ClassifyOf(st.user_input)]
            ELSE st
  IN  [s1 EXCEPT !.context = Put(@, "entities", EntitiesOf(st.user_input))]

\* the turn with that intent node in the place of _classify_intent
TurnByStage(data, existing_state, user_input, capture_ok) ==
  TurnEnd(AfterIntent(data,
            ClassifyByStage(TurnStart(existing_state, user_input)),
            capture_ok))

InitBoth ==
  /\ state = NewState
  /\ current_node = "None"
  /\ knowledge_data \in KnowledgeSources
  /\ captured = <<>>
  /\ call = [fn |-> "execute_workflow", arg |-> None, result |-> NewState]
  /\ retrievals = <<>>

\* one turn of both, on the same utterance and the same outcome of the
\* capture callback
TurnOfBoth(user_input, capture_ok) ==
  /\ TurnsTaken < MaxTurns
  /\ Returned(TurnResult(knowledge_data, state, user_input, capture_ok))
  /\ call' = [fn |-> "execute_workflow", arg |-> user_input,
              result |-> TurnByStage(knowledge_data, call.result, user_input,
                                     capture_ok).st]
  /\ UNCHANGED <<knowledge_data, retrievals>>

NextBoth == \E user_input \in Utterances, capture_ok \in BOOLEAN :
              TurnOfBoth(user_input, capture_ok)

SpecBoth == InitBoth /\ [][NextBoth]_vars

(***************************************************************************)
(* The conversation of a user who gets to the answers in the end: a turn   *)
(* that leaves the stage where it is (a greeting, an inquiry, a malformed  *)
(* answer, a failed capture, a turn after completion) is taken MaxIdleTurns *)
(* times at most, a turn that advances the stage at any time.              *)
(***************************************************************************)
MaxIdleTurns == 2

\* the turns taken so far that did not advance the stage
IdleTurns == TurnsTaken - (StageIndex(state.qualification_stage) - 1)

\* the turn, node by node: each node function is given the state the one
\* before it has left
LiveTurn(user_input, capture_ok) ==
  /\ \E entered \in {TurnStart(state, user_input)} :
     \E classified \in {_classify_intent(entered)} :
     \E retrieved \in {_retrieve_knowledge(knowledge_data, classified)} :
     \E tools \in {ToolsAfter(knowledge_data, retrieved, capture_ok)} :
     \E r \in {TurnEnd(IF retrieved.raised
                        THEN StoppedOn("knowledge_retrieval", retrieved, <<>>)
                        ELSE AfterTools(tools))} :
       /\ \/ IdleTurns < MaxIdleTurns
          \/ r.st.qualification_stage # state.qualification_stage
       /\ Returned(r)
  /\ UNCHANGED <<knowledge_data, call, retrievals>>

\* the answers the user gets to: a name in the stage asking_name, an email
\* in the stage asking_email, a platform in the stage asking_platform in a
\* turn in which the capture callback returns
SupplyName ==
  state.qualification_stage = "asking_name" /\ LiveTurn(U_name, TRUE)
SupplyEmail ==
  state.qualification_stage = "asking_email" /\ LiveTurn(U_email, TRUE)
SupplyPlatform ==
  state.qualification_stage = "asking_platform" /\ LiveTurn(U_platform, TRUE)

NextLive == \E user_input \in Utterances, capture_ok \in BOOLEAN :
              LiveTurn(user_input, capture_ok)

SpecLive ==
  /\ Init /\ [][NextLive]_vars
  /\ WF_vars(SupplyName) /\ WF_vars(SupplyEmail) /\ WF_vars(SupplyPlatform)

(***************************************************************************)
(* Two conversations whose turns go through one WorkflowGraph with the     *)
(* iterations of the while loop interleaved.  Here state holds the         *)
(* WorkflowState of each caller and call the execute_workflow call of each *)
(* (its arguments, its place, the node object of its iteration, the nodes  *)
(* that have had their turn);                                              *)
(* current_node is the one attribute of the graph both calls read and      *)
(* write.                                                                  *)
(***************************************************************************)
Conversations == {1, 2}
MaxInterleavedTurns == 1

\* the utterances of the interleaved turns
InterleavedUtterances == {U_hi, U_inquiry, U_all}

\* the turns conversation c has entered so far
TurnsOf(c) ==
  Cardinality({i \in DOMAIN state[c].conversation_history :
                 state[c].conversation_history[i].type = "user"})

InitInterleaved ==
  /\ state = [c \in Conversations |-> NewState]
  /\ current_node = "None"
  /\ knowledge_data \in KnowledgeSources
  /\ captured = <<>>
  /\ call = [c \in Conversations |-> [pc |-> "idle"]]
  /\ retrievals = <<>>

\* lines 142-160: the user entry, and the cursor of the graph set to start
EnterWorkflow(c, user_input) ==
  /\ call[c].pc \in {"idle", "returned"}
  /\ TurnsOf(c) < MaxInterleavedTurns
  /\ state' = [state EXCEPT ![c] = TurnStart(@, user_input)]
  /\ current_node' = "start"
  /\ call' = [call EXCEPT ![c] =
       [pc |-> "test", existing_state |-> state[c], user_input |-> user_input,
        node |-> "None", executed |-> <<>>]]
  /\ UNCHANGED <<knowledge_data, captured, retrievals>>

\* the nodes that have had their turn in a call are recorded in order while
\* they follow the order of the edges, each once; a node repeated or out of
\* its place leaves this mark in the place of the record
NotInOrder == <<"not in order">>
ExecutedWith(executed, node) ==
  IF /\ executed # NotInOrder
     /\ Len(executed) < Len(NodeOrder)
     /\ NodeOrder[Len(executed) + 1] = node
  THEN Append(executed, node)
  ELSE NotInOrder

\* line 166: the loop test of call c reads the cursor of the graph
TestCursor(c) ==
  /\ call[c].pc = "test"
  /\ call' = [call EXCEPT ![c].pc = IF current_node # "end" THEN "fetch"
                                    ELSE "leave"]
  /\ UNCHANGED <<state, current_node, knowledge_data, captured, retrievals>>

\* line 167: the cursor is read again for the node object of the iteration
FetchNode(c) ==
  /\ call[c].pc = "fetch"
  /\ call' = [call EXCEPT ![c].pc = "call", ![c].node = current_node]
  /\ UNCHANGED <<state, current_node, knowledge_data, captured, retrievals>>

\* what the call of the node function leaves when it has raised: the except
\* branch (197-199) ends the call
NodeRaised(c, out) ==
  /\ state' = [state EXCEPT ![c] = TurnFailed(out.st, out.error)]
  /\ call' = [call EXCEPT ![c].pc = "returned",
                          ![c].executed = ExecutedWith(@, call[c].node)]

\* what it leaves when it has returned
NodeReturned(c, out) ==
  /\ state' = [state EXCEPT ![c] = out.st]
  /\ call' = [call EXCEPT ![c].pc = "move",
                          ![c].executed = ExecutedWith(@, call[c].node)]

\* lines 170-171: the function of the node object, called on the state of
\* call c; capture_ok is what mock_lead_capture does if it is invoked
CallNode(c, capture_ok) ==
  /\ call[c].pc = "call"
  /\ \E out \in {NodeFunction(call[c].node, knowledge_data, state[c],
                              capture_ok)} :
       /\ IF out.raised THEN NodeRaised(c, out) ELSE NodeReturned(c, out)
       /\ captured' = captured \o out.calls
  /\ UNCHANGED <<current_node, knowledge_data, retrievals>>

\* lines 174-177: the cursor is set to the successor of the node object, or
\* the loop is left when the node object has none
MoveOn(c) ==
  /\ call[c].pc = "move"
  /\ IF next_nodes(call[c].node) # <<>>
     THEN /\ current_node' = next_nodes(call[c].node)[1]
          /\ call' = [call EXCEPT ![c].pc = "test"]
     ELSE /\ call' = [call EXCEPT ![c].pc = "leave"]
          /\ UNCHANGED current_node
  /\ UNCHANGED <<state, knowledge_data, captured, retrievals>>

\* lines 179-201: after the loop the cursor is read once more for the
\* metadata; the agent entry is written and the state is returned
LeaveLoop(c) ==
  /\ call[c].pc = "leave"
  /\ state' = [state EXCEPT ![c] = TurnDone(@, current_node)]
  /\ call' = [call EXCEPT ![c].pc = "returned"]
  /\ UNCHANGED <<current_node, knowledge_data, captured, retrievals>>

NextInterleaved ==
  \E c \in Conversations :
    \/ \E user_input \in InterleavedUtterances : EnterWorkflow(c, user_input)
    \/ TestCursor(c)
    \/ FetchNode(c)
    \/ \E capture_ok \in BOOLEAN : CallNode(c, capture_ok)
    \/ MoveOn(c)
    \/ LeaveLoop(c)

SpecInterleaved == InitInterleaved /\ [][NextInterleaved]_vars

(***************************************************************************)
(* Properties                                                              *)
(***************************************************************************)
Lead(st) == <<st.name, st.email, st.platform>>
\* the step is a turn, and it started in the given stage
TurnFrom(stage) ==
  state.qualification_stage = stage /\ TurnsTaken' = TurnsTaken + 1
\* the responses written by the handlers of the history so far
AgentReplies ==
  {state.conversation_history[i].content.fmt :
     i \in {j \in 1..Len(state.conversation_history) :
              state.conversation_history[j].type = "agent"}}

AskNameMsg == Msg("Great! I'd be happy to help you get started. What's your name?", <<>>)
RepromptName == Msg("I didn't catch your name. Could you please tell me your name?", <<>>)
RepromptEmail == Msg("I need a valid email address. Could you please provide your email?", <<>>)
RepromptPlatform == Msg("Which creator platform will you be using? For example: YouTube, TikTok, Instagram, LinkedIn, etc.?", <<>>)

\* C1: the capture callback is invoked only in a turn that starts in stage
\* asking_platform and extracts a platform, once, and with name, email and
\* platform all set at the moment of the call; never in a turn that starts
\* in another stage.
C1_CaptureOnlyAfterAllCollected ==
  [][captured' # captured =>
       /\ TurnFrom("asking_platform")
       /\ PlatformOf(state'.user_input) # None
       /\ Len(captured') = Len(captured) + 1
       /\ SubSeq(captured', 1, Len(captured)) = captured
       /\ LET c == captured'[Len(captured')]
          IN  /\ c.name # None /\ c.email # None /\ c.platform # None
              /\ c.name = state.name /\ c.email = state.email
              /\ c.platform = PlatformOf(state'.user_input)]_vars

C1_Witness ==
  /\ Len(captured) = 1
  /\ captured[1].returned
  /\ state.qualification_stage = "completed"

\* C2: exactly one invocation of the capture callback, returned or failed,
\* in every state with stage completed, and none in a state with another
\* stage unless a capture failed before.
C2_CapturedExactlyOnce ==
  /\ state.qualification_stage = "completed" => Len(captured) = 1
  /\ (state.qualification_stage # "completed"
        /\ \A i \in 1..Len(captured) : captured[i].returned)
       => Len(captured) = 0

\* C3: a turn in stage completed keeps the stage and the lead, answers with
\* the confirmation of the turn that completed the lead and does not invoke
\* the capture callback.
C3_CompletedIsIdempotent ==
  [][/\ state'.qualification_stage = "completed"
          => state'.response = ThanksMsg(state'.name)
     /\ TurnFrom("completed")
          => /\ state'.qualification_stage = "completed"
             /\ Lead(state') = Lead(state)
             /\ state'.response = state.response
             /\ captured' = captured]_vars

C3_Witness ==
  /\ state.qualification_stage = "completed"
  /\ \E i, j \in 1..Len(state.conversation_history) :
       /\ i < j
       /\ state.conversation_history[i].type = "agent"
       /\ state.conversation_history[j].type = "agent"
       /\ state.conversation_history[i].stage = "completed"
       /\ state.conversation_history[j].stage = "completed"
  /\ state.user_input = U_hi

\* C4: the stage never regresses: after every turn, failing ones included,
\* it is at or beyond the stage before the turn.
C4_StageMonotonic ==
  [][StageIndex(state'.qualification_stage)
       >= StageIndex(state.qualification_stage)]_vars

C4_Witness ==
  /\ state.qualification_stage = "completed"
  /\ "error" \in DOMAIN state.metadata

\* C5: a turn that starts with stage other than initial and intent
\* HIGH_INTENT ends with intent HIGH_INTENT whatever the utterance, and its
\* response is one of the qualification dialogue (or the error of a failed
\* capture), not the greeting's or an inquiry's.
QualificationFmts ==
  {RepromptName.fmt, RepromptEmail.fmt, RepromptPlatform.fmt,
   ThanksMsg(None).fmt,
   "Nice to meet you, {}! Now, what's your email address?",
   "Perfect! One last question - what creator platform are you planning to use? (e.g., YouTube, TikTok, Instagram, etc.)",
   "An error occurred during processing: {}"}

C5_StickyIntent ==
  [][(state.qualification_stage # "initial" /\ state.intent = HIGH_INTENT
        /\ TurnsTaken' = TurnsTaken + 1)
       => /\ state'.intent = HIGH_INTENT
          /\ state'.response.fmt \in QualificationFmts]_vars

C5_Witness ==
  /\ state.intent = HIGH_INTENT
  /\ state.qualification_stage # "initial"
  /\ state.user_input \in {U_hi, U_inquiry}
  /\ ClassifyOf(state.user_input) # HIGH_INTENT

\* C6: four turns from a fresh state (a HIGH_INTENT trigger, a name, an
\* email, a platform) with a capture that does not fail end in stage
\* completed, with the lead holding the values extracted at their stages
\* and exactly one capture invocation with those values.
C6_HappyPath ==
  LET u == UserInputs
  IN  (/\ Len(u) = 4
       /\ ClassifyOf(u[1]) = HIGH_INTENT
       /\ NameOf(u[2]) # None
       /\ EmailOf(u[3]) # None
       /\ PlatformOf(u[4]) # None
       /\ \A i \in 1..Len(captured) : captured[i].returned)
      => /\ state.qualification_stage = "completed"
         /\ Lead(state) = <<NameOf(u[2]), EmailOf(u[3]), PlatformOf(u[4])>>
         /\ captured = <<[name |-> state.name, email |-> state.email,
                          platform |-> state.platform, returned |-> TRUE]>>
         /\ u = <<U_try, U_name, U_email, U_platform>>
              => Lead(state) = <<<<"J","o","h","n">>, <<"j","o","h","n","@","e","x","a","m","p","l","e",".","c","o","m">>, <<"Y","o","u","t","u","b","e">>>>

C6_Witness ==
  /\ UserInputs = <<U_try, U_name, U_email, U_platform>>
  /\ state.qualification_stage = "completed"
  /\ Len(captured) = 1

\* C7: in a turn that starts in asking_name, asking_email or asking_platform
\* and whose utterance has no extractable value for that stage, the stage
\* and every lead field stay as they are, capture is not invoked and the
\* response is the re-prompt of the stage.
C7_MalformedReasks ==
  [][/\ (TurnFrom("asking_name") /\ NameOf(state'.user_input) = None)
          => /\ state'.qualification_stage = "asking_name"
             /\ Lead(state') = Lead(state)
             /\ captured' = captured
             /\ state'.response = RepromptName
     /\ (TurnFrom("asking_email") /\ EmailOf(state'.user_input) = None)
          => /\ state'.qualification_stage = "asking_email"
             /\ Lead(state') = Lead(state)
             /\ captured' = captured
             /\ state'.response = RepromptEmail
     /\ (TurnFrom("asking_platform") /\ PlatformOf(state'.user_input) = None)
          => /\ state'.qualification_stage = "asking_platform"
             /\ Lead(state') = Lead(state)
             /\ captured' = captured
             /\ state'.response = RepromptPlatform]_vars

C7_Witness ==
  /\ state.response = RepromptPlatform
  /\ state.qualification_stage = "asking_platform"
  /\ RepromptEmail.fmt \in AgentReplies

\* C8: a turn that starts in stage initial with an utterance classified
\* HIGH_INTENT ends in asking_name with intent HIGH_INTENT and the question
\* for the name; it sets no lead field and does not invoke capture, even
\* when the utterance holds a name, an email or a platform.
C8_EnterQualification ==
  [][(TurnFrom("initial") /\ ClassifyOf(state'.user_input) = HIGH_INTENT)
       => /\ state'.intent = HIGH_INTENT
          /\ state'.qualification_stage = "asking_name"
          /\ state'.response = AskNameMsg
          /\ Lead(state') = <<None, None, None>>
          /\ captured' = captured]_vars

C8_Witness ==
  /\ state.user_input = U_all
  /\ state.qualification_stage = "asking_name"
  /\ _extract_name(U_all) # None
  /\ _extract_email(U_all) # None
  /\ _extract_platform(U_all) # None

\* C9: a text that matches a HIGH_INTENT pattern and also a GREET pattern
\* or an INQUIRY pattern is classified HIGH_INTENT.
C9_PriorityLaw ==
  (/\ call.fn = "classify_intent" /\ call.result # "pending"
   /\ AnyMatch(HighIntentPatterns, Lower(call.arg))
   /\ \/ AnyMatch(GreetPatterns, Lower(call.arg))
      \/ AnyMatch(InquiryPatterns, Lower(call.arg)))
    => call.result = HIGH_INTENT

C9_Witness ==
  /\ call.fn = "classify_intent"
  /\ call.result = HIGH_INTENT
  /\ AnyMatch(HighIntentPatterns, Lower(call.arg))
  /\ AnyMatch(GreetPatterns, Lower(call.arg))
  /\ AnyMatch(InquiryPatterns, Lower(call.arg))

\* C10: classify always returns an intent, by one decision order: INQUIRY
\* for a short-circuit utterance, else HIGH_INTENT on a HIGH_INTENT match,
\* else GREET on a GREET match, else INQUIRY on an INQUIRY match, else GREET.
C10_DecisionOrder ==
  (call.fn = "classify_intent" /\ call.result # "pending")
    => LET t == Lower(call.arg)
       IN  /\ call.result \in IntentType
           /\ call.result =
                IF t \in {<<"y","e","s">>, <<"y","e","s"," ","t","e","l","l"," ","m","e">>, <<"o","k">>, <<"o","k","a","y">>} THEN INQUIRY
                ELSE IF AnyMatch(HighIntentPatterns, t) THEN HIGH_INTENT
                ELSE IF AnyMatch(GreetPatterns, t) THEN GREET
                ELSE IF AnyMatch(InquiryPatterns, t) THEN INQUIRY
                ELSE GREET

C10_Witness ==
  /\ call.fn = "classify_intent"
  /\ call.result = GREET
  /\ AnyMatch(GreetPatterns, Lower(call.arg))
  /\ AnyMatch(InquiryPatterns, Lower(call.arg))
  /\ ~AnyMatch(HighIntentPatterns, Lower(call.arg))

GreetingMsg == Msg("Hello (U+1F44B) How can I help you today?", <<>>)

\* C11: every turn whose resolved intent is GREET is a turn in stage initial
\* and returns exactly the greeting, whatever response the previous turn
\* left on the state.
C11_GreetingTurn ==
  [][(TurnsTaken' = TurnsTaken + 1 /\ state'.intent = GREET) =>
       /\ state'.qualification_stage = "initial"
       /\ state'.response = GreetingMsg
       /\ current_node' = "end"]_vars

\* a greeting turn taken after a turn that left another response
C11_Witness ==
  /\ state.intent = GREET
  /\ state.response = GreetingMsg
  /\ \E i \in 1..Len(state.conversation_history) :
       /\ state.conversation_history[i].type = "agent"
       /\ state.conversation_history[i].content # GreetingMsg

\* The entries of a tree are named by position: <<i, j>> is sub-item j of
\* category i, and <<i, 0>> is category i itself when it is a string.
Positions(tree) ==
  {p \in (1..Len(tree)) \X (0..Len(tree) + 2) :
     \/ tree[p[1]][2].kind = "dict" /\ p[2] \in 1..Len(tree[p[1]][2].items)
     \/ tree[p[1]][2].kind = "str" /\ p[2] = 0}
\* the order of the traversal: categories in order, sub-items in order
Before(p, q) == p[1] < q[1] \/ (p[1] = q[1] /\ p[2] < q[2])
EntryMainKey(tree, p) == tree[p[1]][1]
EntrySubKey(tree, p) ==
  IF p[2] = 0 THEN None ELSE tree[p[1]][2].items[p[2]][1]
EntryValue(tree, p) ==
  IF p[2] = 0 THEN StrLeaf(tree[p[1]][2].text) ELSE tree[p[1]][2].items[p[2]][2]
EntryKey(tree, p) ==
  IF p[2] = 0 THEN EntryMainKey(tree, p)
  ELSE EntryMainKey(tree, p) \o <<".">> \o EntrySubKey(tree, p)
Gated(tree, query, p) ==
  _is_relevant_to_query(Lower(query), EntryMainKey(tree, p),
                        EntrySubKey(tree, p), EntryValue(tree, p))
Score(tree, query, p) ==
  _calculate_relevance(Lower(query), EntryMainKey(tree, p),
                       EntrySubKey(tree, p), EntryValue(tree, p))
GatedPositions(tree, query) == {p \in Positions(tree) : Gated(tree, query, p)}
\* the place of a gated entry in the ranking: behind every gated entry of
\* greater score and every earlier gated entry of equal score
\* the gated entries of a tree with their scores, as pairs <<position, score>>
Scored(tree, query) ==
  {<<p, Score(tree, query, p)>> : p \in GatedPositions(tree, query)}
Rank(scored, e) ==
  1 + Cardinality({f \in scored :
        \/ FloatLess(e[2], f[2])
        \/ f[2] = e[2] /\ Before(f[1], e[1])})
IsRetrieval == call.fn = "retrieve_relevant_info"

\* C12: for every limit >= 0, retrieve returns the first min(limit, n) of
\* the n gated entries in the order of descending score, entries of equal
\* score in the order of the traversal; its length never exceeds the limit.
C12_ResultOrder ==
  (IsRetrieval /\ call.arg[2] >= 0) =>
    \A scored \in {Scored(knowledge_data, call.arg[1])} :
      /\ Len(call.result) = IF call.arg[2] < Cardinality(scored)
                            THEN call.arg[2] ELSE Cardinality(scored)
      /\ Len(call.result) <= call.arg[2]
      /\ \A e \in scored :
           \A r \in {Rank(scored, e)} :
             r <= call.arg[2] =>
               /\ call.result[r].key = EntryKey(knowledge_data, e[1])
               /\ call.result[r].relevance_score = e[2]

\* a call cut by the limit whose result holds two entries of equal score
\* that were moved ahead of an earlier entry of smaller score
C12_Witness ==
  /\ IsRetrieval
  /\ call.arg[2] = 2
  /\ Len(call.result) = 2
  /\ call.result[1].relevance_score = call.result[2].relevance_score
  /\ \E scored \in {Scored(knowledge_data, call.arg[1])} :
       /\ Cardinality(scored) > 2
       /\ \E e, f \in scored :
            Before(e[1], f[1]) /\ Rank(scored, e) > 2 /\ Rank(scored, f) <= 2

ResultKeys == {call.result[i].key : i \in 1..Len(call.result)}

\* C13: the gate is a hard filter that does not depend on the score: an
\* entry is in the result only if it passes the gate, an entry that fails
\* the gate is not in the result even when its score would be positive, and
\* an entry that passes the gate is a candidate even when its score is 0
\* (it is in the result whenever the limit does not cut it off).
C13_GateIsHardFilter ==
  IsRetrieval =>
    \A p \in Positions(knowledge_data) :
      /\ EntryKey(knowledge_data, p) \in ResultKeys
           => Gated(knowledge_data, call.arg[1], p)
      /\ (/\ Gated(knowledge_data, call.arg[1], p)
          /\ call.arg[2] >= Cardinality(GatedPositions(knowledge_data, call.arg[1])))
           => EntryKey(knowledge_data, p) \in ResultKeys

\* a call that leaves out an entry of positive score that fails the gate
\* and returns an entry of score 0 that passes it
C13_Witness ==
  /\ IsRetrieval
  /\ \E p \in Positions(knowledge_data) :
       /\ ~Gated(knowledge_data, call.arg[1], p)
       /\ FloatLess(F_0_0, Score(knowledge_data, call.arg[1], p))
       /\ EntryKey(knowledge_data, p) \notin ResultKeys
  /\ \E i \in 1..Len(call.result) : call.result[i].relevance_score = F_0_0

\* C14: two retrieval calls with the same query on the same tree return the
\* same entries in the same order with the same scores, whatever calls were
\* made in between and in whatever order each call iterates the set of its
\* query words; the list is the one the count of the hits gives.
C14_RetrievalDeterminism ==
  \A i, j \in 1..Len(retrievals) :
    /\ retrievals[i].query = retrievals[j].query
         => retrievals[i].result = retrievals[j].result
    /\ retrievals[i].result = CountedOf(knowledge_data, retrievals[i].query)

\* a query repeated after a call with another query and another result, the
\* two calls iterating the words in different orders; the repeated result
\* holds an entry whose score is the sum of several hits of one loop, below
\* the clamp
C14_Witness ==
  /\ Len(retrievals) = 3
  /\ retrievals[1].query = retrievals[3].query
  /\ retrievals[1].query_words # retrievals[3].query_words
  /\ retrievals[2].query # retrievals[1].query
  /\ retrievals[2].result # retrievals[1].result
  /\ retrievals[2].result # <<>>
  /\ \E e \in Range(retrievals[3].result) :
       e.relevance_score = FloatAdd(FloatAdd(F_0_2, F_0_2), F_0_2)

PricingProKey == <<"p","r","i","c","i","n","g",".","P","r","o">>
\* the positions of the entry pricing.Pro in the tree of the object
PricingPro == {p \in Positions(knowledge_data) :
                 EntryKey(knowledge_data, p) = PricingProKey}
\* a call with the query of the scenario and the default limit on a tree
\* that contains pricing.Pro
ProPlanCall ==
  /\ IsRetrieval
  /\ call.arg = <<U_inquiry, DefaultMaxResults>>
  /\ PricingPro # {}

\* C15 as stated: for the query "Tell me about Pro plan" and every tree that
\* contains pricing.Pro, whatever else it contains and in whatever order,
\* the result is not empty and its first entry has key "pricing.Pro".
C15_ProPlanFirst ==
  ProPlanCall => call.result # <<>> /\ call.result[1].key = PricingProKey

\* C15 amended: for that query and every tree that contains pricing.Pro the
\* result is not empty and its first entry has the clamped score 1.0, which
\* is the score of pricing.Pro; the first entry is pricing.Pro when no entry
\* before it in the traversal reaches 1.0 as well, and otherwise it is the
\* first entry of the traversal that does.
C15_ProPlanScoresHighest ==
  ProPlanCall =>
    /\ call.result # <<>>
    /\ call.result[1].relevance_score = F_1_0
    /\ \A p \in PricingPro :
         /\ Gated(knowledge_data, U_inquiry, p)
         /\ Score(knowledge_data, U_inquiry, p) = F_1_0
         /\ \A q \in GatedPositions(knowledge_data, U_inquiry) :
              (/\ Score(knowledge_data, U_inquiry, q) = F_1_0
               /\ \A r \in GatedPositions(knowledge_data, U_inquiry) :
                    Before(r, q) => Score(knowledge_data, U_inquiry, r) # F_1_0)
                => /\ call.result[1].key = EntryKey(knowledge_data, q)
                   /\ q = p \/ Before(q, p)

\* pricing.Pro comes first although a category and a plan precede it in
\* the tree
C15_Witness ==
  /\ ProPlanCall
  /\ call.result[1].key = PricingProKey
  /\ Len(call.result) >= 3
  /\ \E p \in PricingPro : p[1] = 2 /\ p[2] = 2

ErrorMsg == Msg("An error occurred during processing: {}", <<CaptureError>>)
IsPrefix(s, t) == Len(s) <= Len(t) /\ SubSeq(t, 1, Len(s)) = s
\* the capture callback was invoked in this step and raised
CaptureFailedNow ==
  /\ Len(captured') = Len(captured) + 1
  /\ ~captured'[Len(captured')].returned

\* C16: a turn appends the user entry for the utterance and, whenever it
\* returns with a response set (by a handler or by the error boundary), an
\* agent entry whose content is the returned response: the turn adds
\* exactly two entries and the last one is that agent entry.
C16_TranscriptPerTurn ==
  [][(TurnsTaken' = TurnsTaken + 1 /\ state'.response # NoResponse) =>
       state'.conversation_history =
         state.conversation_history \o
           <<UserEntry(state'.user_input),
             [type |-> "agent", content |-> state'.response,
              intent |-> state'.intent, stage |-> state'.qualification_stage]>>]_vars

\* C17: the transcript is append-only: in every turn, failed turns
\* included, the transcript before the turn is a prefix of the transcript
\* after it and the transcript gets longer.
C17_TranscriptAppendOnly ==
  [][state' # state =>
       /\ IsPrefix(state.conversation_history, state'.conversation_history)
       /\ Len(state'.conversation_history) > Len(state.conversation_history)]_vars

\* a failed turn on a transcript of three full turns
C17_Witness ==
  /\ state.response = ErrorMsg
  /\ Len(state.conversation_history) = 7
  /\ state.conversation_history[7].type = "user"
  /\ state.conversation_history[6].type = "agent"

\* C18: when a step of a turn fails, the turn still returns the state, with
\* the error message as response and the error recorded in the metadata,
\* and what earlier turns gathered (transcript, name, email, stage) is
\* still there.
C18_ErrorBoundary ==
  [][CaptureFailedNow =>
       /\ TurnsTaken' = TurnsTaken + 1
       /\ current_node' = "tool_execution"
       /\ state'.response = ErrorMsg
       /\ "error" \in DOMAIN state'.metadata
       /\ state'.metadata["error"] = CaptureError
       /\ IsPrefix(state.conversation_history, state'.conversation_history)
       /\ state'.name = state.name
       /\ state'.email = state.email
       /\ state'.qualification_stage = state.qualification_stage
       /\ state'.intent = state.intent]_vars

\* the state a failed turn returns: error response and marker, name and
\* email of the earlier turns
C18_Witness ==
  /\ state.response = ErrorMsg
  /\ "error" \in DOMAIN state.metadata
  /\ current_node = "tool_execution"
  /\ state.name # None /\ state.email # None
  /\ state.qualification_stage = "asking_platform"

\* C19: a capture failure in the platform turn becomes the error of the
\* turn and leaves the stage at asking_platform; the same utterance in the
\* next turn invokes the callback again, with the same three values, and
\* when the callback then returns the stage is completed.
C19_CaptureFailureKeepsStage ==
  [][/\ CaptureFailedNow =>
          /\ state.qualification_stage = "asking_platform"
          /\ state'.qualification_stage = "asking_platform"
          /\ state'.response = ErrorMsg
     /\ (/\ state.response = ErrorMsg
         /\ TurnsTaken' = TurnsTaken + 1
         /\ state'.user_input = state.user_input) =>
          /\ Len(captured') = Len(captured) + 1
          /\ [captured'[Len(captured')] EXCEPT !.returned = FALSE]
               = captured[Len(captured)]
          /\ captured'[Len(captured')].returned
               => state'.qualification_stage = "completed"
          /\ ~captured'[Len(captured')].returned
               => state'.qualification_stage = "asking_platform"]_vars

\* the replay of the platform turn after a failed capture has completed
\* the qualification
C19_Witness ==
  /\ state.qualification_stage = "completed"
  /\ Len(captured) = 2
  /\ ~captured[1].returned /\ captured[2].returned
  /\ captured[1].platform = captured[2].platform
  /\ state.conversation_history[Len(state.conversation_history) - 1].content
       = state.conversation_history[Len(state.conversation_history) - 2].content

\* C20: with a knowledge source that is missing or cannot be parsed no turn
\* fails because of the source (a turn fails only when the capture callback
\* raises), every retrieval is empty, and every turn resolved as INQUIRY
\* returns the "I don't have specific information about '<query>' in my
\* knowledge base." message with stage and lead unchanged.
C20_SourceDegradesToEmpty ==
  [][TurnsTaken' = TurnsTaken + 1 =>
       /\ current_node' = "end" \/ CaptureFailedNow
       /\ "sources" \in DOMAIN state'.context
       /\ state'.context["sources"] = <<>>
       /\ state'.intent = INQUIRY =>
            /\ state'.response =
                 Msg("I don't have specific information about '{}' in my knowledge base.",
                     <<state'.user_input>>)
            /\ state'.qualification_stage = state.qualification_stage
            /\ Lead(state') = Lead(state)]_vars

\* C21: lead fields are absent until their stage succeeds: in every state,
\* those after a failed capture included, name is set only in stage
\* asking_email, asking_platform or completed, email only in stage
\* asking_platform or completed, and platform only in stage completed with
\* the capture callback invoked.
C21_LeadFieldsFollowStage ==
  /\ state.name # None =>
       state.qualification_stage \in {"asking_email", "asking_platform", "completed"}
  /\ state.email # None =>
       state.qualification_stage \in {"asking_platform", "completed"}
  /\ state.platform # None =>
       state.qualification_stage = "completed" /\ captured # <<>>

\* the part of a state that a later turn can tell apart: intent, stage and
\* lead, on an otherwise new state
Memory(st) ==
  [NewState EXCEPT
     !.intent = st.intent,
     !.qualification_stage = st.qualification_stage,
     !.name = st.name, !.email = st.email, !.platform = st.platform]
\* what a turn gives back to the user and to the next turn
Core(st) == <<st.intent, st.qualification_stage, Lead(st), st.response>>
\* the step is the turn that execute_workflow makes of the given state
TurnOf(st) ==
  \E capture_ok \in BOOLEAN :
    \E r \in {TurnResult(knowledge_data, st, state'.user_input, capture_ok)} :
      /\ Core(state') = Core(r.st)
      /\ captured' = captured \o r.calls

\* C22: the first turn starts from stage initial, no intent, no lead and an
\* empty transcript; every later turn starts from the state the turn before
\* returned: its transcript is continued and its intent, stage and lead
\* decide the outcome; a turn taken in stage initial, after greetings and
\* inquiries only, has the outcome of the same turn on a new state, so the
\* qualification that follows is the one of a new conversation.
C22_ConversationMemory ==
  [][state' # state =>
       /\ TurnsTaken = 0 =>
            /\ state.qualification_stage = "initial"
            /\ state.intent = NoIntent
            /\ Lead(state) = <<None, None, None>>
            /\ state.conversation_history = <<>>
       /\ IsPrefix(Append(state.conversation_history, UserEntry(state'.user_input)),
                   state'.conversation_history)
       /\ TurnOf(Memory(state))
       /\ state.qualification_stage = "initial" => TurnOf(NewState)]_vars

C22_Witness ==
  /\ TurnsTaken = MaxTurns
  /\ ClassifyOf(UserInputs[1]) \in {GREET, INQUIRY}
  /\ state.qualification_stage = "completed"
  /\ Len(captured) = 1
  /\ Lead(state) = <<NameOf(U_name), EmailOf(U_email), PlatformOf(U_platform)>>

\* a mark in the place of the response the turn before left on the state
Stale == Msg("stale", <<>>)
\* the state at the entry of the turn, the response of the turn before
\* marked
EntryState(user_input) ==
  [TurnStart(state, user_input) EXCEPT
     !.response = IF @ = NoResponse THEN @ ELSE Stale]
\* the first three nodes of the turn run on the marked state
ToolsOutcome(user_input, capture_ok) ==
  ToolsAfter(knowledge_data,
             _retrieve_knowledge(knowledge_data,
                                 _classify_intent(EntryState(user_input))),
             capture_ok)

\* C23: response has one writer per turn: in a turn that does not fail the
\* handler of the turn (a stage handler, the greeting or the inquiry
\* handler) writes it, the finalization leaves it as the handler wrote it,
\* and the turn returns that value, never the response the turn before left;
\* in a failing turn no handler has written and the error response is the
\* only write.
C23_SingleWriter ==
  [][state' # state =>
       \E capture_ok \in BOOLEAN :
         \E tools \in {ToolsOutcome(state'.user_input, capture_ok)} :
           /\ captured' = captured \o tools.calls
           /\ IF tools.raised
              THEN /\ tools.st.response = EntryState(state'.user_input).response
                   /\ state'.response = ErrorMsg
              ELSE /\ tools.st.response # EntryState(state'.user_input).response
                   /\ tools.st.response # Stale
                   /\ _generate_response(tools.st) = Returns(tools.st)
                   /\ state'.response = tools.st.response]_vars

C23_Witness ==
  /\ Len(state.conversation_history) >= 4
  /\ \E h \in {state.conversation_history} :
       /\ h[Len(h)].type = "agent"
       /\ h[Len(h)].content = state.response
       /\ h[Len(h) - 2].type = "agent"
       /\ h[Len(h) - 2].content # state.response
       /\ h[Len(h)].intent = GREET

\* C24: a turn is one pass of the node loop: entered at start, it gives each
\* of intent classification (intent resolution, then entity extraction),
\* knowledge retrieval, tool execution (the dispatch) and response
\* generation its turn once, in this order, and stops with the cursor on
\* end; when a node fails the pass stops on that node, the nodes before it
\* having run once in this order.
C24_OneDecisionCycle ==
  [][state' # state =>
       \E capture_ok \in BOOLEAN :
         \E run \in {Loop("start", knowledge_data,
                          TurnStart(state, state'.user_input), capture_ok,
                          <<>>, <<>>)} :
           /\ captured' = captured \o run.calls
           /\ current_node' = run.node
           /\ state' = TurnEnd(run).st
           /\ IsPrefix(run.executed, NodeOrder)
           /\ IF run.raised
              THEN run.node = run.executed[Len(run.executed)]
              ELSE /\ run.executed = SubSeq(NodeOrder, 1, Len(NodeOrder) - 1)
                   /\ run.node = "end"
                   /\ state'.metadata["nodes_executed"] = NodeOrder]_vars

C24_Witness ==
  /\ current_node = "end"
  /\ "nodes_executed" \in DOMAIN state.metadata
  /\ state.metadata["nodes_executed"] = NodeOrder
  /\ "error" \notin DOMAIN state.metadata
  /\ state.qualification_stage = "asking_email"
  /\ TurnsTaken = 2

\* the responses only _handle_lead_qualification writes
StageHandlerFmts ==
  (QualificationFmts \ {ErrorMsg.fmt}) \cup {AskNameMsg.fmt}

\* C25: a turn whose resolved intent is GREET or INQUIRY leaves stage, name,
\* email and platform as they were and does not invoke the capture callback;
\* a turn that changes the stage or the lead, invokes the callback or
\* answers with a response of the qualification dialogue has resolved
\* intent HIGH_INTENT.
C25_HandlersNonStateful ==
  [][state' # state =>
       /\ state'.intent \in {GREET, INQUIRY} =>
            /\ state'.qualification_stage = state.qualification_stage
            /\ Lead(state') = Lead(state)
            /\ captured' = captured
       /\ (\/ state'.qualification_stage # state.qualification_stage
           \/ Lead(state') # Lead(state)
           \/ captured' # captured
           \/ state'.response.fmt \in StageHandlerFmts)
            => state'.intent = HIGH_INTENT]_vars

C25_Witness ==
  /\ state.intent = INQUIRY
  /\ state.qualification_stage = "initial"
  /\ TurnsTaken = 3
  /\ state.conversation_history[2].intent = GREET
  /\ state.conversation_history[4].intent = INQUIRY
  /\ captured = <<>>

\* the entity mappings extract_entities gives for the utterances, and none
EntityMaps == {EntitiesOf(u) : u \in Utterances} \cup {EmptyDict}
WithEntities(st, entities) ==
  [st EXCEPT !.context = Put(@, "entities", entities)]
\* the step is the turn in which extract_entities gave the given mapping
TurnExtracting(classified, entities) ==
  \E retrieved \in {_retrieve_knowledge(knowledge_data,
                                        WithEntities(classified, entities))} :
    \E capture_ok \in BOOLEAN :
      \E r \in {TurnEnd(AfterRetrieval(knowledge_data, retrieved, capture_ok))} :
        /\ Core(state') = Core(r.st)
        /\ captured' = captured \o r.calls
        /\ WithEntities(r.st, state'.context["entities"]) = state'

\* C26: entity extraction has no effect on control flow: the turn on a
\* state that differs from the one held only in the entities of its context
\* gives the same intent, stage, lead, response and capture invocations,
\* and so does the turn in which extract_entities returns another mapping,
\* whose state differs in nothing but the entities of the context.
C26_EntitiesOffControlFlow ==
  [][state' # state =>
       \E classified \in {_classify_intent(TurnStart(state, state'.user_input))} :
         \A entities \in EntityMaps :
           /\ \E other \in {WithEntities(state, entities)} : TurnOf(other)
           /\ TurnExtracting(classified, entities)]_vars

C26_Witness ==
  /\ TurnsTaken = 2
  /\ state.user_input = U_name
  /\ state.context["entities"] = EmptyDict
  /\ state.conversation_history[1].content = U_try
  /\ EntitiesOf(U_try) # EmptyDict
  /\ state.qualification_stage = "asking_email"

\* the retrieved context and sources a state carries (none when absent)
Retrieved(st) ==
  [k \in DOMAIN st.context \cap {"retrieved_knowledge", "sources"} |->
     st.context[k]]

\* C27: the retriever is consulted conditionally: a greeting turn and a turn
\* handled by a qualification stage handler do not consult it and leave
\* the retrieved context and sources as they were, absent or with the value
\* of the turn before; retrieved is overwritten only in a turn where
\* retrieval runs.
C27_RetrievalConditional ==
  [][(state' # state /\ state'.intent \in {GREET, HIGH_INTENT})
       => Retrieved(state') = Retrieved(state)]_vars

\* the state _handle_lead_qualification calls _capture_lead on in the step:
\* the state the knowledge node has left, with the platform stored
AtCapture ==
  PlatformStored(
    _retrieve_knowledge(knowledge_data,
                        _classify_intent(TurnStart(state, state'.user_input))).st,
    PlatformOf(state'.user_input))

\* C28: when the capture callback is invoked the stage has already advanced
\* to completed, so a failing capture leaves the state in stage completed.
C28_StageAdvancedAtCapture ==
  [][captured' # captured =>
       /\ AtCapture.qualification_stage = "completed"
       /\ CaptureFailedNow => state'.qualification_stage = "completed"]_vars

\* the float nearest to n tenths, n in 0..10
TenthFloats == <<
  <<0, 0>>, <<13421772, 214748365>>, <<26843545, 161061274>>,
  <<40265318, 107374182>>, <<53687091, 53687092>>, <<67108864, 0>>,
  <<80530636, 214748364>>, <<93952409, 161061272>>,
  <<107374182, 107374184>>, <<120795955, 53687092>>, <<134217728, 0>> >>
Tenth(n) == TenthFloats[n + 1]
\* x - y in units of 2^-55, for floats whose high limbs differ by one at most
UnitsApart(x, y) == (x[1] - y[1]) * Limb + (x[2] - y[2])
\* x and y are the same float or neighbours
WithinOneUlp(x, y) ==
  /\ x[1] - y[1] \in {-1, 0, 1}
  /\ UnitsApart(x, y) <= Quantum(y[1])
  /\ UnitsApart(y, x) <= Quantum(y[1])
\* the distinct tokens of the lowercased query, and how many of them occur
\* in a lowercased text
Tokens(query) == Range(Split(Lower(query)))
Hits(query, text) ==
  Cardinality({w \in Tokens(query) : Contains(w, Lower(text))})
Indicator(b) == IF b THEN 1 ELSE 0
\* the claimed score of an entry, in tenths
Tenths(tree, query, p) ==
  MinOf({10,
    (IF p[2] = 0 THEN 0
     ELSE 8 * Indicator(Contains(Lower(EntrySubKey(tree, p)), Lower(query)))
            + 3 * Hits(query, EntrySubKey(tree, p)))
    + 5 * Indicator(Contains(Lower(EntryMainKey(tree, p)), Lower(query)))
    + (IF EntryValue(tree, p).isStr
       THEN 2 * Hits(query, EntryValue(tree, p).content) ELSE 0)})
\* the returned entries with their positions in the tree
ReturnedEntries ==
  {<<i, p>> \in (1..Len(call.result)) \X GatedPositions(knowledge_data, call.arg[1]) :
     EntryKey(knowledge_data, p) = call.result[i].key}

\* C29 as claimed: the score of every gated entry is, in tenths,
\* min(10, 8*[sub-key in query] + 3*(query tokens in the sub-key)
\*         + 5*[category key in query] + 2*(query tokens in the leaf text)),
\* so it lies in [0, 1], and an entry without sub-key gets no sub-key part.
C29_ScoreInTenths ==
  IsRetrieval =>
    /\ \A i \in 1..Len(call.result) : \E e \in ReturnedEntries : e[1] = i
    /\ \A e \in ReturnedEntries :
         call.result[e[1]].relevance_score
           = Tenth(Tenths(knowledge_data, call.arg[1], e[2]))

\* C29, amended: the score of every gated entry is the float sum of 0.8,
\* 0.3 per token, 0.5 and 0.2 per token for the same four counts, clamped
\* to 1.0: it is the float of that number of tenths or a neighbour of it
\* (three leaf-text tokens give 0.6000000000000001), it lies in [0, 1], and
\* an entry without sub-key gets no sub-key part.
C29_ScoreNearTenths ==
  IsRetrieval =>
    /\ \A i \in 1..Len(call.result) : \E e \in ReturnedEntries : e[1] = i
    /\ \A e \in ReturnedEntries :
         \E score \in {call.result[e[1]].relevance_score} :
           /\ WithinOneUlp(score, Tenth(Tenths(knowledge_data, call.arg[1], e[2])))
           /\ ~FloatLess(score, F_0_0) /\ ~FloatLess(F_1_0, score)
           /\ Tenths(knowledge_data, call.arg[1], e[2]) = 10 => score = F_1_0
           /\ Tenths(knowledge_data, call.arg[1], e[2]) = 0 => score = F_0_0

\* a call that returns a score that is not the float of its tenths, next to
\* a gated entry with a sub-key that scores 0
C29_Witness ==
  /\ IsRetrieval
  /\ \E e \in ReturnedEntries :
       /\ Tenths(knowledge_data, call.arg[1], e[2]) = 6
       /\ e[2][2] = 0
       /\ call.result[e[1]].relevance_score # Tenth(6)
  /\ \E e \in ReturnedEntries :
       /\ e[2][2] # 0
       /\ call.result[e[1]].relevance_score = F_0_0

\* the platform vocabulary in its order, lower case and as str.title() writes it
PlatformVocabulary == <<
  <<<<"y","o","u","t","u","b","e">>, <<"Y","o","u","t","u","b","e">>>>,
  <<<<"t","i","k","t","o","k">>, <<"T","i","k","t","o","k">>>>,
  <<<<"i","n","s","t","a","g","r","a","m">>, <<"I","n","s","t","a","g","r","a","m">>>>,
  <<<<"l","i","n","k","e","d","i","n">>, <<"L","i","n","k","e","d","i","n">>>>,
  <<<<"t","w","i","t","t","e","r">>, <<"T","w","i","t","t","e","r">>>>,
  <<<<"f","a","c","e","b","o","o","k">>, <<"F","a","c","e","b","o","o","k">>>>,
  <<<<"t","w","i","t","c","h">>, <<"T","w","i","t","c","h">>>> >>

\* the word stands in the text at index i, whatever the case of the letters
MentionedAt(word, text, i) ==
  /\ i + Len(word) - 1 <= Len(text)
  /\ \A j \in 1..Len(word) : LowerChar(text[i + j - 1]) = word[j]

\* the vocabulary members the text mentions, with the index of the first mention
Mentions(text) ==
  {<<k, i>> \in (1..Len(PlatformVocabulary)) \X (1..Len(text)) :
     /\ MentionedAt(PlatformVocabulary[k][1], text, i)
     /\ \A h \in 1..(i - 1) : ~MentionedAt(PlatformVocabulary[k][1], text, h)}

ExtractedPlatform == call.fn = "_extract_platform" /\ "result" \in DOMAIN call

\* C33: the platform extraction returns a platform exactly when the utterance
\* holds a member of the vocabulary as a substring, whatever the case, and
\* what it returns is the title-cased form of the mentioned member that comes
\* first in the order of the vocabulary, wherever it stands in the utterance
C33_PlatformExtraction ==
  ExtractedPlatform =>
    \A mentions \in {Mentions(call.arg)} :
      /\ call.result # None <=> mentions # {}
      /\ \A m \in mentions :
           (\A n \in mentions : m[1] <= n[1]) =>
             call.result = PlatformVocabulary[m[1]][2]

\* an answer that names tiktok before youtube has yielded Youtube
C33_Witness ==
  /\ ExtractedPlatform
  /\ \E m, n \in Mentions(call.arg) : m[1] < n[1] /\ n[2] < m[2]
  /\ call.result = <<"Y","o","u","t","u","b","e">>

\* the invocations of the capture callback that returned, with the fields of
\* the state as their arguments
CapturedStoredLead ==
  {i \in 1..Len(captured) :
     /\ captured[i].returned
     /\ <<captured[i].name, captured[i].email, captured[i].platform>> = Lead(state)}

\* C34: in every state a conversation can reach from a new state, a stage
\* other than initial goes with the intent HIGH_INTENT; the stages from
\* asking_email on go with a name, the stages from asking_platform on with
\* an email, and the stage completed with a platform and with an invocation
\* of the capture callback that returned and was given the stored name,
\* email and platform.
C34_StageImpliesCollected ==
  /\ state.qualification_stage # "initial" => state.intent = HIGH_INTENT
  /\ state.qualification_stage \in {"asking_email", "asking_platform", "completed"}
       => Truthy(state.name)
  /\ state.qualification_stage \in {"asking_platform", "completed"}
       => Truthy(state.email)
  /\ state.qualification_stage = "completed"
       => Truthy(state.platform) /\ CapturedStoredLead # {}

\* the stage completed reached on the second platform answer, after the
\* capture of another platform had failed
C34_Witness ==
  /\ state.qualification_stage = "completed"
  /\ Len(captured) = 2
  /\ ~captured[1].returned
  /\ captured[1].platform # state.platform
  /\ CapturedStoredLead = {2}

\* the least number of turns that lead from a new state to the last stage
TurnsToComplete == Len(Stages) - 1

\* C35: a turn advances the stage by one step at most, whatever the
\* utterance holds, so that a conversation that has reached the stage
\* completed has taken four turns or more.
C35_OneStagePerTurn ==
  /\ [][StageIndex(state'.qualification_stage)
          <= StageIndex(state.qualification_stage) + 1]_vars
  /\ [](state.qualification_stage = "completed" => TurnsTaken >= TurnsToComplete)

\* an utterance with a name, an email and a platform, given in the stage
\* asking_name, has left the conversation in the stage asking_email with
\* the name alone
C35_Witness ==
  /\ state.user_input = U_all
  /\ Truthy(NameOf(U_all)) /\ Truthy(EmailOf(U_all)) /\ Truthy(PlatformOf(U_all))
  /\ state.qualification_stage = "asking_email"
  /\ state.name = NameOf(U_all)
  /\ state.email = None /\ state.platform = None

\* C36: each field of the lead is written once at most: a name, an email or
\* a platform that the state holds is the same after every later turn.
C36_LeadFieldsWrittenOnce ==
  [][/\ state.name # None => state'.name = state.name
     /\ state.email # None => state'.email = state.email
     /\ state.platform # None => state'.platform = state.platform]_vars

\* the state carries the error marker of a failed turn
Marked(st) == "error" \in DOMAIN st.metadata

\* C37: the error marker stays: once a failed turn has put it on the state,
\* every later turn returns a state that carries it, with the text of the
\* last failure, also when the turn ends without a failure; the response
\* of such a turn is the one its own handler has written, not the error
\* message.
C37_ErrorMarkerStays ==
  [][(Marked(state) /\ state' # state) =>
       /\ Marked(state')
       /\ CaptureFailedNow =>
            /\ state'.metadata["error"] = CaptureError
            /\ state'.response = ErrorMsg
       /\ ~CaptureFailedNow =>
            /\ state'.metadata["error"] = state.metadata["error"]
            /\ state'.response =
                 IF state'.qualification_stage = "completed"
                 THEN ThanksMsg(state'.name) ELSE RepromptPlatform]_vars

\* after a failed turn a turn has ended without a failure, with the prompt
\* for the platform as its response, and the marker is there
C37_Witness ==
  /\ Marked(state)
  /\ state.metadata["error"] = CaptureError
  /\ state.qualification_stage = "asking_platform"
  /\ state.response = RepromptPlatform
  /\ captured # <<>>
  /\ ~captured[Len(captured)].returned

\* what the two runs are compared on: intent, stage, lead and response
Observed(st) ==
  <<st.intent, st.qualification_stage, st.name, st.email, st.platform, st.response>>

\* C32: the override of the code (the classifier is consulted unless the
\* stage is not initial and the intent is HIGH_INTENT) and the rule of the
\* design note (the classifier is consulted exactly in the stage initial)
\* agree: after every sequence of turns from a new state, failing turns
\* included, the two runs hold the same intent, stage, lead and response.
C32_OverrideIsDesignRule ==
  Observed(call.result) = Observed(state)

\* both runs have kept HIGH_INTENT through a failed capture and through an
\* utterance the classifier takes for something else
C32_Witness ==
  /\ Observed(call.result) = Observed(state)
  /\ state.qualification_stage = "asking_platform"
  /\ state.intent = HIGH_INTENT
  /\ ClassifyOf(state.user_input) # HIGH_INTENT
  /\ Marked(state)

\* C38: a conversation that has entered the qualification reaches the stage
\* completed and stays in it, provided the user gets to a name, an email and
\* a platform and the capture callback returns on some invocation; the
\* greetings, inquiries, malformed answers and failed captures in between
\* do not put the completion out of reach.
C38_QualificationCompletes ==
  (state.qualification_stage = "asking_name")
    ~> [](state.qualification_stage = "completed")

\* the stage completed reached through a name that was not understood and
\* a capture that failed
C38_Witness ==
  /\ state.qualification_stage = "completed"
  /\ IdleTurns = MaxIdleTurns
  /\ RepromptName.fmt \in AgentReplies
  /\ Len(captured) = 2
  /\ ~captured[1].returned

\* the call of conversation c run with no other call in between
Alone(c, capture_ok) ==
  Loop("start", knowledge_data,
       TurnStart(call[c].existing_state, call[c].user_input),
       capture_ok, <<>>, <<>>)

\* C31: the graph holds nothing that the turn of one conversation can see
\* or disturb in the turn of another: when the turns of two conversations
\* go through one graph with their node steps interleaved, each call has
\* executed every node once, on its own state, and returns the state it
\* returns when it runs alone.
C31_NoSharedState ==
  \A c \in Conversations :
    call[c].pc = "returned" =>
      \E capture_ok \in BOOLEAN :
        \A alone \in {Alone(c, capture_ok)} :
          /\ call[c].executed = alone.executed
          /\ state[c] = TurnEnd(alone).st

====
